---- MODULE Spec2Model ----
(***************************************************************************)
(* Pattern detection of DiscoPoP on the program execution tree (PET):      *)
(* the graph_tool PatternDetector of pattern_detection.py and the          *)
(* networkx detectors of graph_analyzer/.  The PET is a finite graph whose *)
(* nodes are CUs, functions, loops and dummies, with ordered child edges   *)
(* and data dependence edges.                                              *)
(***************************************************************************)
EXTENDS Integers, Sequences, FiniteSets, TLC

(* Natural numbers of arbitrary size: little-endian sequences of limbs in
   0..LimbBase-1, without leading zero limbs. *)
LimbBits == 13
LimbBase == 2 ^ LimbBits
SetMax(S) == CHOOSE m \in S : \A o \in S : o <= m
Limb(a, i) == IF i >= 1 /\ i <= Len(a) THEN a[i] ELSE 0
LTrim(a) ==
    LET nz == {i \in 1..Len(a) : a[i] # 0}
    IN IF nz = {} THEN <<>> ELSE SubSeq(a, 1, SetMax(nz))
LFromNat(k) ==
    LTrim(<<k % LimbBase, (k \div LimbBase) % LimbBase, k \div (LimbBase * LimbBase)>>)
LLess(a, b) ==
    LET d == {i \in 1..SetMax({Len(a), Len(b)}) : Limb(a, i) # Limb(b, i)}
    IN d # {} /\ Limb(a, SetMax(d)) < Limb(b, SetMax(d))
(* carry propagation over a sequence of column sums *)
RECURSIVE Carry(_, _, _, _)
Carry(cols, i, c, acc) ==
    IF i > Len(cols)
    THEN (IF c = 0 THEN acc ELSE Carry(<<c>>, 1, 0, acc))
    ELSE LET s == cols[i] + c
             acc2 == Append(acc, s % LimbBase)
         IN IF Len(acc2) > 0 THEN Carry(cols, i + 1, s \div LimbBase, acc2) ELSE <<>>
LAdd(a, b) ==
    LTrim(Carry([i \in 1..SetMax({Len(a), Len(b)}) |-> Limb(a, i) + Limb(b, i)], 1, 0, <<>>))
(* a - b for a >= b *)
RECURSIVE Borrow(_, _, _, _, _)
Borrow(a, b, i, c, acc) ==
    IF i > Len(a) THEN acc
    ELSE LET s == Limb(a, i) - Limb(b, i) - c
             acc2 == Append(acc, s % LimbBase)
         IN IF Len(acc2) > 0 THEN Borrow(a, b, i + 1, IF s < 0 THEN 1 ELSE 0, acc2) ELSE <<>>
LSub(a, b) == LTrim(Borrow(a, b, 1, 0, <<>>))
RECURSIVE SumTo(_, _)
SumTo(f, n) == IF n = 0 THEN 0 ELSE f[n] + SumTo(f, n - 1)
LMul(a, b) ==
    IF a = <<>> \/ b = <<>> THEN <<>>
    ELSE LTrim(Carry([k \in 1..(Len(a) + Len(b) - 1) |->
                        SumTo([i \in 1..Len(a) |-> a[i] * Limb(b, k + 1 - i)], Len(a))],
                     1, 0, <<>>))
LShl(a, s) ==
    LET w == s \div LimbBits
        t == s % LimbBits
    IN LTrim([i \in 1..(Len(a) + w + 1) |->
                (Limb(a, i - w) % (2 ^ (LimbBits - t))) * (2 ^ t)
                + (Limb(a, i - w - 1) \div (2 ^ (LimbBits - t)))])
(* floor(a / 2^s) *)
LShr(a, s) ==
    LET w == s \div LimbBits
        t == s % LimbBits
    IN LTrim([i \in 1..(Len(a) - w) |->
                (Limb(a, i + w) \div (2 ^ t)) + (Limb(a, i + w + 1) % (2 ^ t)) * (2 ^ (LimbBits - t))])
RECURSIVE SmallBitLen(_)
SmallBitLen(k) == IF k = 0 THEN 0 ELSE 1 + SmallBitLen(k \div 2)
LBitLen(a) == IF a = <<>> THEN 0 ELSE (Len(a) - 1) * LimbBits + SmallBitLen(a[Len(a)])
BitAt(a, p) == (Limb(a, (p \div LimbBits) + 1) \div (2 ^ (p % LimbBits))) % 2
LOdd(a) == Limb(a, 1) % 2 = 1
(* q = floor(r * 2^k / d) for r < d, and whether the division leaves a
   remainder: k steps of restoring division *)
RECURSIVE DivR(_, _, _, _)
DivR(r, d, k, q) ==
    IF k = 0 THEN [q |-> q, r |-> r]
    ELSE LET r2 == LShl(r, 1)
             ge == ~LLess(r2, d)
             r3 == IF ge THEN LSub(r2, d) ELSE r2
             q2 == LAdd(LShl(q, 1), IF ge THEN <<1>> ELSE <<>>)
         IN IF Len(r3) >= 0 /\ Len(q2) >= 0 THEN DivR(r3, d, k - 1, q2) ELSE [q |-> q, r |-> r]
(* floor(sqrt(n)) and the remainder, two bits of n at a time from the top:
   k bit pairs are left, s is the root so far, r the remainder so far *)
RECURSIVE SqrtR(_, _, _, _)
SqrtR(n, k, s, r) ==
    IF k = 0 THEN [s |-> s, r |-> r]
    ELSE LET pair == BitAt(n, 2 * k - 2) + 2 * BitAt(n, 2 * k - 1)
             r2 == LAdd(LShl(r, 2), LFromNat(pair))
             t == LAdd(LShl(s, 2), <<1>>)
             ge == ~LLess(r2, t)
             r3 == IF ge THEN LSub(r2, t) ELSE r2
             s2 == LAdd(LShl(s, 1), IF ge THEN <<1>> ELSE <<>>)
         IN IF Len(r3) >= 0 /\ Len(s2) >= 0 THEN SqrtR(n, k - 1, s2, r3) ELSE [s |-> s, r |-> r]
LSqrtRem(n) == SqrtR(n, (LBitLen(n) + 1) \div 2, <<>>, <<>>)

(* binary64: a non-negative finite double is m * 2^e with m a 53-bit natural
   (or zero); every operation rounds its exact result to nearest, ties to even *)
MantBits == 53
FZero == [m |-> <<>>, e |-> 0]
RoundNE(n, e) ==
    LET L == LBitLen(n)
    IN IF L = 0 THEN FZero
       ELSE IF L <= MantBits THEN [m |-> LShl(n, MantBits - L), e |-> e - (MantBits - L)]
       ELSE LET sh == L - MantBits
                keep == LShr(n, sh)
                guard == BitAt(n, sh - 1) = 1
                rest == \E p \in 0..(sh - 2) : BitAt(n, p) = 1
                up == guard /\ (rest \/ LOdd(keep))
                k2 == IF up THEN LAdd(keep, <<1>>) ELSE keep
            IN IF LBitLen(k2) > MantBits THEN [m |-> LShr(k2, 1), e |-> e + sh + 1]
               ELSE [m |-> k2, e |-> e + sh]
FFromNat(k) == RoundNE(LFromNat(k), 0)
FMul(a, b) == RoundNE(LMul(a.m, b.m), a.e + b.e)
(* a.m / b.m lies in (1/2, 2): 56 quotient bits below the leading one, and a
   sticky bit for the remainder *)
FDiv(a, b) ==
    IF a.m = <<>> THEN FZero
    ELSE LET big == ~LLess(a.m, b.m)
             d == DivR(IF big THEN LSub(a.m, b.m) ELSE a.m, b.m, 56, IF big THEN <<1>> ELSE <<>>)
             st == IF d.r = <<>> THEN <<>> ELSE <<1>>
         IN RoundNE(LAdd(LShl(d.q, 1), st), a.e - b.e - 57)
FSqrt(a) ==
    IF a.m = <<>> THEN FZero
    ELSE LET odd == a.e % 2 # 0
             mm == LShl(a.m, IF odd THEN 59 ELSE 58)
             ee == IF odd THEN a.e - 59 ELSE a.e - 58
             s == LSqrtRem(mm)
             st == IF s.r = <<>> THEN <<>> ELSE <<1>>
         IN RoundNE(LAdd(LShl(s.s, 1), st), (ee \div 2) - 1)
FAligned(a, b) ==
    LET lo == IF a.e < b.e THEN a.e ELSE b.e
    IN [a |-> LShl(a.m, a.e - lo), b |-> LShl(b.m, b.e - lo), e |-> lo]
FAdd(a, b) ==
    IF a.m = <<>> THEN b ELSE IF b.m = <<>> THEN a
    ELSE LET al == FAligned(a, b) IN RoundNE(LAdd(al.a, al.b), al.e)
(* a - b for a >= b *)
FSub(a, b) ==
    IF b.m = <<>> THEN a
    ELSE LET al == FAligned(a, b) IN RoundNE(LSub(al.a, al.b), al.e)
FLess(a, b) ==
    IF b.m = <<>> THEN FALSE ELSE IF a.m = <<>> THEN TRUE
    ELSE LET al == FAligned(a, b) IN LLess(al.a, al.b)

(* ------------------------------------------------------------------ *)
(* The state of a detector run.                                        *)
(* ------------------------------------------------------------------ *)
VARIABLES
    pet,              \* the graph: node types, child edges, dependence edges, lines, variables
    loop_data,        \* start line -> measured iteration count (absent lines read as 0)
    reduction_vars,   \* set of [loop_line, name] entries of reduction.txt
    pipeline,         \* node -> stored pipeline value
    reduction,        \* node -> reduction flag
    doAll,            \* node -> do-all flag
    geomDecomp,       \* node -> geometric decomposition flag
    mwType,           \* node -> master/worker role
    loop_iterations,  \* memo of __iterations_count: node -> count, or -1 when not yet computed
    result,           \* pattern infos reported so far
    plan,             \* the passes still to run, the current one first
    todo,             \* the nodes the current pass still has to visit
    mw,               \* position inside the role classification of one main node
    viz,              \* the vertex properties viz_omittable, viz_contains_task, viz_contains_taskwait
    bar               \* locals of __detect_barrier_suggestions: position, node lists, change flag

vars == <<pet, loop_data, reduction_vars, pipeline, reduction, doAll, geomDecomp,
          mwType, loop_iterations, result, plan, todo, mw, viz, bar>>

Range(s) == {s[i] : i \in 1..Len(s)}
Nodes == 1..pet.n

(* out-edges of a node with the given edge type, as the list of targets *)
find_subnodes(node, criteria) ==
    IF criteria = "child" THEN pet.children[node] ELSE <<>>

RECURSIVE get_subtree_of_type(_, _)
RECURSIVE subtree_of_children(_, _, _)
get_subtree_of_type(root, type) ==
    (IF pet.type[root] = type \/ type = "*" THEN <<root>> ELSE <<>>)
        \o subtree_of_children(pet.children[root], 1, type)
subtree_of_children(kids, i, type) ==
    IF i > Len(kids) THEN <<>>
    ELSE get_subtree_of_type(kids[i], type) \o subtree_of_children(kids, i + 1, type)

(* dependence edges leaving / entering a node *)
out_deps(v) == {k \in 1..Len(pet.deps) : pet.deps[k].src = v}
in_deps(v) == {k \in 1..Len(pet.deps) : pet.deps[k].dst = v}

depends(source, target) ==
    IF source = target THEN FALSE
    ELSE LET target_nodes == Range(get_subtree_of_type(target, "*"))
         IN \E node \in Range(get_subtree_of_type(source, "*")) :
               \E k \in out_deps(node) :
                  pet.deps[k].dtype = "RAW" /\ pet.deps[k].dst \in target_nodes

is_loop_index(e, loops_start_lines, children) ==
    /\ pet.deps[e].source = pet.deps[e].sink
    /\ pet.deps[e].source \in loops_start_lines
    /\ pet.deps[e].dst \in children

is_readonly_inside_loop_body(dep, root_loop) ==
    LET loops_start_lines == {pet.startsAtLine[v] : v \in Range(get_subtree_of_type(root_loop, "loop"))}
        children == Range(get_subtree_of_type(root_loop, "cu"))
    IN \A v \in children :
          /\ \A e \in out_deps(v) :
                (pet.deps[e].dtype \in {"WAR", "WAW"}) =>
                    ~(pet.deps[dep].var = pet.deps[e].var
                      /\ pet.deps[e].sink \notin loops_start_lines)
          /\ \A e \in in_deps(v) :
                (pet.deps[e].dtype = "RAW") =>
                    ~(pet.deps[dep].var = pet.deps[e].var
                      /\ pet.deps[e].source \notin loops_start_lines)

get_all_dependencies(node, root_loop) ==
    LET children == Range(get_subtree_of_type(node, "cu"))
        loops_start_lines == {pet.startsAtLine[v] : v \in Range(get_subtree_of_type(root_loop, "loop"))}
        kept == {e \in UNION {out_deps(v) : v \in children} :
                    /\ pet.deps[e].dtype = "RAW"
                    /\ ~(is_loop_index(e, loops_start_lines, Range(get_subtree_of_type(root_loop, "cu")))
                         /\ is_readonly_inside_loop_body(e, root_loop))}
    IN {pet.deps[e].dst : e \in kept}

is_depending(v_source, v_target, root_loop) ==
    LET children == Range(get_subtree_of_type(v_target, "cu")) \cup {v_target}
    IN \E dep \in get_all_dependencies(v_source, root_loop) : dep \in children

(* ------------------------------------------------------------------ *)
(* Cosine similarity (pattern_detection.py, correlation_coefficient).  *)
(* ------------------------------------------------------------------ *)
MaxKids == 3
MaxPairs == (MaxKids * (MaxKids + 1)) \div 2

FOne == FFromNat(1)

RECURSIVE IntDot(_, _, _)
IntDot(v1, v2, i) == IF i = 0 THEN 0 ELSE v1[i] * v2[i] + IntDot(v1, v2, i - 1)

(* np.linalg.norm of a list of integers: the square root of the exact sum of
   squares, converted to a double; tabulated by the sum of squares *)
IntNormTable == [sq \in 0..MaxPairs |-> FSqrt(FFromNat(sq))]
IntNorm(v) == IntNormTable[IntDot(v, v, Len(v))]

(* return 0 if norm_product == 0 else np.dot(v1, v2) / norm_product *)
CorrQuotient(dot, norm_product) ==
    IF norm_product = FZero THEN FZero ELSE FDiv(dot, norm_product)
NormProduct(norms, sq1, sq2) == FMul(norms[sq1], norms[sq2])

(* both lists hold integers: np.dot is an exact integer, the norms are
   doubles, and the quotient is one double division.  Tabulated by
   <<v1.v2, v1.v1, v2.v2>> for the 0/1 lists the detectors build, where the
   second list has a 1 wherever the first has one. *)
CorrKeys == UNION {{<<k, k, n>> : k \in 0..n} : n \in 0..MaxPairs}
CorrTable ==
    [key \in CorrKeys |-> CorrQuotient(FFromNat(key[1]), NormProduct(IntNormTable, key[2], key[3]))]
correlation_coefficient(v1, v2) ==
    CorrTable[<<IntDot(v1, v2, Len(v1)), IntDot(v1, v1, Len(v1)), IntDot(v2, v2, Len(v2))>>]

(* one of the lists holds a double: numpy computes everything in doubles,
   element by element *)
RECURSIVE FDot(_, _, _)
FDot(v1, v2, i) ==
    IF i = 0 THEN FZero ELSE FAdd(FDot(v1, v2, i - 1), FMul(v1[i], v2[i]))
FNorm(v) == FSqrt(FDot(v, v, Len(v)))
correlation_coefficient_float(v1, v2) ==
    CorrQuotient(FDot(v1, v2, Len(v1)), FMul(FNorm(v1), FNorm(v2)))

do_all_threshold == FDiv(FFromNat(9), FFromNat(10))

(* ------------------------------------------------------------------ *)
(* PatternDetector (pattern_detection.py): the passes of detect_patterns *)
(* ------------------------------------------------------------------ *)
vertices == [i \in 1..pet.n |-> i]
find_vertex(type) == SelectSeq(vertices, LAMBDA v : pet.type[v] = type)

(* __merge(False, True): the child edges into dummy nodes are removed *)
merge(g) ==
    [g EXCEPT !.children =
        [node \in 1..g.n |->
            IF g.type[node] = "dummy" THEN g.children[node]
            ELSE SelectSeq(g.children[node], LAMBDA c : g.type[c] # "dummy")]]

is_pipeline_subnode(root, current, children_start_lines) ==
    LET r_start == pet.startsAtLine[root]
        r_end == pet.endsAtLine[root]
        c_start == pet.startsAtLine[current]
        c_end == pet.endsAtLine[current]
    IN ~(\/ c_start = r_start /\ c_end = r_start
         \/ c_start = r_end /\ c_end = r_end
         \/ c_start = c_end /\ c_start \in children_start_lines)

pipeline_subnodes(root) ==
    LET children_start_lines ==
            {pet.startsAtLine[v] : v \in {c \in Range(find_subnodes(root, "child")) : pet.type[c] = "loop"}}
    IN SelectSeq(find_subnodes(root, "child"),
                 LAMBDA v : is_pipeline_subnode(root, v, children_start_lines))

(* node_weight = 1 - (j - i) / (len(loop_subnodes) - 1), in doubles,
   tabulated by <<j - i, len(loop_subnodes)>> *)
NodeWeightKeys == UNION {{<<d, len>> : d \in 1..(len - 1)} : len \in 2..MaxKids}
NodeWeightTable ==
    [key \in NodeWeightKeys |-> FSub(FOne, FDiv(FFromNat(key[1]), FFromNat(key[2] - 1)))]
node_weights(len) == [d \in 1..(len - 1) |-> NodeWeightTable[<<d, len>>]]

(* the distances j - i of the pairs i < j of stages where stage i depends on
   stage j *)
depending_distances(loop_subnodes, root) ==
    {p[2] - p[1] : p \in {q \in (1..Len(loop_subnodes)) \X (1..Len(loop_subnodes)) :
          q[1] < q[2] /\ is_depending(loop_subnodes[q[1]], loop_subnodes[q[2]], root)}}

(* min_weight after the scan, as the distance whose weight it is: the weight
   is the smallest one in (0, 1); 0 when min_weight is still 1 *)
Lightest(cands, w) ==
    IF cands = {} THEN 0 ELSE CHOOSE d \in cands : \A o \in cands : ~FLess(w[o], w[d])
min_weight(ds, w) == Lightest({d \in ds : FLess(FZero, w[d]) /\ FLess(w[d], FOne)}, w)

PipelineFloatKeys ==
    UNION {{<<gv, d, len>> : gv \in [1..(len - 1) -> {0, 1}], d \in 1..(len - 2)} : len \in 3..MaxKids}
PipelineFloatTable ==
    [key \in PipelineFloatKeys |->
        correlation_coefficient_float(
            [i \in 1..key[3] |-> IF i < key[3] THEN FFromNat(key[1][i]) ELSE FOne],
            [i \in 1..key[3] |-> IF i < key[3] THEN FOne ELSE NodeWeightTable[<<key[2], key[3]>>]])]

pipeline_graph_vector(loop_subnodes, root) ==
    [i \in 1..(Len(loop_subnodes) - 1) |->
        IF is_depending(loop_subnodes[i + 1], loop_subnodes[i], root) THEN 1 ELSE 0]

pipeline_value(graph_vector, d, len) ==
    IF d = 0
    THEN correlation_coefficient(Append(graph_vector, 0), Append([i \in 1..(len - 1) |-> 1], 0))
    ELSE PipelineFloatTable[<<graph_vector, d, len>>]

(* lines 209-214: the entries appended to graph_vector and pipeline_vector *)
pipeline_last_entries(loop_subnodes, root) ==
    LET w == node_weights(Len(loop_subnodes))
        d == min_weight(depending_distances(loop_subnodes, root), w)
    IN IF d = 0 THEN <<0, FZero>> ELSE <<1, w[d]>>

(* __detect_pipeline: the value returned, and whether -1 was stored on the
   way (the too-few-stages exit) *)
detect_pipeline_stages(loop_subnodes, root) ==
    IF Len(loop_subnodes) < 2 THEN [ret |-> FZero, stored |-> TRUE]
    ELSE [ret |-> pipeline_value(pipeline_graph_vector(loop_subnodes, root),
                                 min_weight(depending_distances(loop_subnodes, root),
                                            node_weights(Len(loop_subnodes))),
                                 Len(loop_subnodes)),
          stored |-> FALSE]
detect_pipeline(root) == detect_pipeline_stages(pipeline_subnodes(root), root)

(* stored pipeline values are signed doubles *)
Pos(f) == [neg |-> FALSE, abs |-> f]
MinusOne == [neg |-> TRUE, abs |-> FOne]

(* the reduction test without the comparison of the loop line *)
is_reduction_var_any_line(line, name) ==
    \E rv \in reduction_vars : rv.name = name

is_reduction_var(line, name) ==
    \E rv \in reduction_vars : rv.loop_line = line /\ rv.name = name

(* a detection that passes over loops already flagged as do-all *)
detect_reduction_unless_do_all(root) ==
    IF pet.type[root] # "loop" \/ doAll[root] THEN FALSE
    ELSE LET vs == UNION {pet.localVars[node] \cup pet.globalVars[node] :
                            node \in Range(get_subtree_of_type(root, "cu"))}
         IN {v \in vs : is_reduction_var(pet.startsAtLine[root], v)} # {}

detect_reduction(root) ==
    IF pet.type[root] # "loop" THEN FALSE
    ELSE LET vs == UNION {pet.localVars[node] \cup pet.globalVars[node] :
                            node \in Range(get_subtree_of_type(root, "cu"))}
         IN {v \in vs : is_reduction_var(pet.startsAtLine[root], v)} # {}

RECURSIVE Flatten(_, _)
Flatten(rows, i) == IF i > Len(rows) THEN <<>> ELSE rows[i] \o Flatten(rows, i + 1)

(* __detect_do_all: one entry for every pair i <= j of direct children *)
do_all_graph_vector(root) ==
    LET subnodes == find_subnodes(root, "child")
        len == Len(subnodes)
    IN Flatten([i \in 1..len |->
                   [k \in 1..(len - i + 1) |->
                       IF is_depending(subnodes[i], subnodes[i + k - 1], root) THEN 0 ELSE 1]], 1)

detect_do_all(root) ==
    LET graph_vector == do_all_graph_vector(root)
        pattern_vector == [i \in 1..Len(graph_vector) |-> 1]
    IN IF IntNorm(graph_vector) = FZero THEN FZero
       ELSE correlation_coefficient(graph_vector, pattern_vector)

(* ------------------------------------------------------------------ *)
(* Master/worker roles: detect_task_parallelism (pattern_detection.py) *)
(* and __detect_mw_types (task_parallelism_detector.py), one loop      *)
(* iteration at a time.  A position is [main, ph, i, j]: in phase      *)
(* "class" i is the child in turn and j the index into other_nodes     *)
(* (0: the NONE/ROOT test of the child itself); in phase "pair" i and  *)
(* j index n1 and n2.                                                  *)
(* ------------------------------------------------------------------ *)
MwIdle == [main |-> 0, ph |-> "idle", i |-> 0, j |-> 0]

RemoveAt(s, i) == [k \in 1..(Len(s) - 1) |-> IF k < i THEN s[k] ELSE s[k + 1]]

(* the number of RAW edges going directly from other_node to node *)
raw_targets(other_node, node) ==
    Cardinality({k \in out_deps(other_node) : pet.deps[k].dst = node /\ pet.deps[k].dtype = "RAW"})

(* n2 is the target of an out-edge or the source of an in-edge of n1,
   child edges included *)
directly_connected(n1, n2) ==
    \/ \E k \in out_deps(n1) : pet.deps[k].dst = n2
    \/ \E k \in in_deps(n1) : pet.deps[k].src = n2
    \/ n2 \in Range(pet.children[n1])
    \/ n1 \in Range(pet.children[n2])

mw_begin(main) == [main |-> main, ph |-> "class", i |-> 1, j |-> 0]

mw_class_next(pos, len) ==
    IF pos.j < len - 1 THEN [pos EXCEPT !.j = pos.j + 1]
    ELSE IF pos.i < len THEN [pos EXCEPT !.i = pos.i + 1, !.j = 0]
    ELSE [pos EXCEPT !.ph = "pair", !.i = 1, !.j = 1]

mw_pair_row(pos, len) ==
    IF pos.i < len THEN [pos EXCEPT !.i = pos.i + 1, !.j = 1] ELSE MwIdle

mw_pair_next(pos, len) ==
    IF pos.j < len THEN [pos EXCEPT !.j = pos.j + 1] ELSE mw_pair_row(pos, len)

(* one iteration; extended is TRUE for __detect_mw_types, which also counts
   the RAW edges from other_node to node *)
mw_step(pos, ty, extended) ==
    LET kids == find_subnodes(pos.main, "child")
        len == Len(kids)
    IN IF pos.ph = "class" THEN
           LET node == kids[pos.i]
           IN IF pos.j = 0
              THEN [pos |-> mw_class_next(pos, len),
                    ty |-> IF ty[node] \in {"NONE", "ROOT"} THEN [ty EXCEPT ![node] = "FORK"] ELSE ty]
              ELSE LET other_node == RemoveAt(kids, pos.i)[pos.j]
                   IN [pos |-> mw_class_next(pos, len),
                       ty |-> IF ~depends(other_node, node) THEN ty
                              ELSE IF ty[other_node] = "WORKER" THEN [ty EXCEPT ![other_node] = "BARRIER"]
                              ELSE IF extended /\ raw_targets(other_node, node) > 1
                                   THEN [ty EXCEPT ![other_node] = "BARRIER"]
                                   ELSE [ty EXCEPT ![other_node] = "WORKER"]]
       ELSE
           LET n1 == kids[pos.i]
               n2 == kids[pos.j]
           IN IF pos.j = 1 /\ ty[n1] # "BARRIER" THEN [pos |-> mw_pair_row(pos, len), ty |-> ty]
              ELSE IF ty[n2] = "BARRIER" /\ n1 # n2
                   THEN IF directly_connected(n1, n2)
                        THEN [pos |-> mw_pair_row(pos, len), ty |-> ty]
                        ELSE [pos |-> mw_pair_next(pos, len),
                              ty |-> [ty EXCEPT ![n1] = "BARRIER_WORKER", ![n2] = "BARRIER_WORKER"]]
                   ELSE [pos |-> mw_pair_next(pos, len), ty |-> ty]

RECURSIVE mw_run(_, _, _)
mw_run(pos, ty, extended) ==
    IF pos.ph = "idle" THEN ty
    ELSE LET s == mw_step(pos, ty, extended)
         IN IF s.pos.i >= 0 THEN mw_run(s.pos, s.ty, extended) ELSE ty

detect_task_parallelism(main_node, ty) == mw_run(mw_begin(main_node), ty, FALSE)
detect_mw_types(main_node, ty) == mw_run(mw_begin(main_node), ty, TRUE)

(* the body of the vertex loop of __detect_task_parallelism_loop *)
task_parallelism_vertex(node, ty) ==
    IF pet.type[node] = "dummy" THEN ty
    ELSE LET t1 == IF find_subnodes(node, "child") # <<>> THEN detect_task_parallelism(node, ty) ELSE ty
         IN IF t1[node] = "NONE" THEN [t1 EXCEPT ![node] = "ROOT"] ELSE t1

(* the three vertex properties before the barrier pass has written them, and
   the pass's locals outside a call *)
VizFresh(n) == [omittable |-> [v \in 1..n |-> "False"],
                contains_task |-> [v \in 1..n |-> "False"],
                contains_taskwait |-> [v \in 1..n |-> "False"]]
BarIdle == [pc |-> "call", task_nodes |-> <<>>, barrier_nodes |-> <<>>, transformation_happened |-> FALSE]

(* ------------------------------------------------------------------ *)
(* Geometric decomposition: iteration counts and the two detectors     *)
(* ------------------------------------------------------------------ *)
MathInf == 2147483647
Max2(a, b) == IF a > b THEN a ELSE b
Min2(a, b) == IF a < b THEN a ELSE b

get_loop_iterations(line) == IF line \in DOMAIN loop_data THEN loop_data[line] ELSE 0

(* the sources of the child edges entering a node *)
child_parents(node) == SelectSeq(vertices, LAMBDA p : node \in Range(pet.children[p]))

RECURSIVE parent_walk(_)
parent_walk(parent) ==
    IF parent = <<>> THEN 1
    ELSE IF pet.type[parent[1]] = "loop"
         THEN Max2(1, get_loop_iterations(pet.startsAtLine[parent[1]]))
         ELSE parent_walk(child_parents(parent[1]))
get_parent_iterations(node) == parent_walk(child_parents(node))

(* __iterations_count with its memo: the count, and the memo afterwards *)
iterations_count(node, memo) ==
    IF memo[node] # -1 THEN [count |-> memo[node], memo |-> memo]
    ELSE LET loop_iter == get_loop_iterations(pet.startsAtLine[node])
             parent_iter == get_parent_iterations(node)
             c == IF loop_iter < parent_iter THEN loop_iter
                  ELSE IF loop_iter = 0 \/ parent_iter = 0 THEN 0
                  ELSE loop_iter \div parent_iter
         IN [count |-> c, memo |-> [memo EXCEPT ![node] = c]]

(* the loops __test_chunk_limit looks at: the direct loop children, then the
   direct loop children of every direct function child *)
chunk_children(node) ==
    SelectSeq(pet.children[node], LAMBDA c : pet.type[c] = "loop")
        \o Flatten([k \in 1..Len(SelectSeq(pet.children[node], LAMBDA c : pet.type[c] = "func")) |->
                       SelectSeq(pet.children[SelectSeq(pet.children[node], LAMBDA c : pet.type[c] = "func")[k]],
                                 LAMBDA c : pet.type[c] = "loop")], 1)

(* the dictionary inner_loop_iter, keyed by start line, filled child by child *)
RECURSIVE fill_inner_loop_iter(_, _, _, _)
fill_inner_loop_iter(children, i, dict, memo) ==
    IF i > Len(children) THEN [dict |-> dict, memo |-> memo]
    ELSE LET r == iterations_count(children[i], memo)
             line == pet.startsAtLine[children[i]]
             d2 == [l \in DOMAIN dict \cup {line} |-> IF l = line THEN r.count ELSE dict[l]]
         IN fill_inner_loop_iter(children, i + 1, d2, r.memo)

RECURSIVE MinOver(_, _)
MinOver(d, keys) ==
    IF keys = {} THEN MathInf
    ELSE LET k == CHOOSE x \in keys : TRUE IN Min2(d[k], MinOver(d, keys \ {k}))

(* the chunk test without the condition on the minimum *)
test_chunk_limit_any_min(node, memo) ==
    LET f == fill_inner_loop_iter(chunk_children(node), 1, <<>>, memo)
        min_iterations_count == MinOver(f.dict, DOMAIN f.dict)
    IN [test |-> DOMAIN f.dict # {},
        min_iter |-> min_iterations_count,
        memo |-> f.memo]

test_chunk_limit(node, memo) ==
    LET f == fill_inner_loop_iter(chunk_children(node), 1, <<>>, memo)
        min_iterations_count == MinOver(f.dict, DOMAIN f.dict)
    IN [test |-> DOMAIN f.dict # {} /\ min_iterations_count > 0,
        min_iter |-> min_iterations_count,
        memo |-> f.memo]

(* doAll[child] < do_all_threshold and not reduction[child]: a flag compared
   with the threshold counts as 0 (False) or 1 (True) *)
BoolNum(b) == IF b THEN FOne ELSE FZero
neither_flag(child) == FLess(BoolNum(doAll[child]), do_all_threshold) /\ ~reduction[child]

(* PatternDetector.__detect_geometric_decomposition; find_subnodes with the
   criteria '1' and '2' selects edges of those types *)
detect_geometric_decomposition(root) ==
    /\ \A child \in Range(get_subtree_of_type(root, "loop")) :
          ~neither_flag(child)
    /\ \A child \in Range(find_subnodes(root, "1")) :
          \A child2 \in Range(find_subnodes(child, "2")) :
             ~neither_flag(child2)

(* PETGraphX *)
RECURSIVE subtree_of_type(_, _)
RECURSIVE subtree_of_type_children(_, _, _)
(* the subtree with the root behind its descendants *)
subtree_of_type_root_last(root, type) ==
    subtree_of_type_children(pet.children[root], 1, type)
        \o (IF pet.type[root] = type THEN <<root>> ELSE <<>>)

subtree_of_type(root, type) ==
    (IF pet.type[root] = type THEN <<root>> ELSE <<>>)
        \o subtree_of_type_children(pet.children[root], 1, type)
subtree_of_type_children(kids, i, type) ==
    IF i > Len(kids) THEN <<>>
    ELSE subtree_of_type(kids[i], type) \o subtree_of_type_children(kids, i + 1, type)

direct_children_of_type(root, type) == SelectSeq(pet.children[root], LAMBDA t : pet.type[t] = type)

all_nodes(type) == SelectSeq(vertices, LAMBDA v : pet.type[v] = type)

(* geometric_decomposition_detector.__detect_geometric_decomposition *)
gd_detect_geometric_decomposition(root) ==
    /\ \A child \in Range(subtree_of_type(root, "loop")) : ~(reduction[child] \/ doAll[child])
    /\ \A child \in Range(direct_children_of_type(root, "func")) :
          \A child2 \in Range(direct_children_of_type(child, "loop")) :
             ~(reduction[child2] \/ doAll[child2])

(* ------------------------------------------------------------------ *)
(* Graphs                                                              *)
(* ------------------------------------------------------------------ *)
MaxNodes == 4
MaxDeps == 1

CuTypes == {"cu", "func", "loop", "dummy"}

(* the forests on 1..n in which node 1 is the root and every other node hangs
   below a node with a smaller number *)
TreeParents(n) == {par \in [1..n -> 0..(n - 1)] : par[1] = 0 /\ \A k \in 2..n : par[k] >= 1 /\ par[k] < k}

MkPet(n, ty, par, deps, sl, el, lv, gv) ==
    [n |-> n, type |-> ty,
     children |-> [p \in 1..n |-> SelectSeq([i \in 1..n |-> i], LAMBDA c : par[c] = p)],
     deps |-> deps, startsAtLine |-> sl, endsAtLine |-> el, localVars |-> lv, globalVars |-> gv]

(* sequences of at most k distinct elements of a pool of edges, in the order
   of the pool's numbering *)
RECURSIVE SetToSeq(_)
SetToSeq(S) == IF S = {} THEN <<>> ELSE LET x == CHOOSE y \in S : TRUE IN <<x>> \o SetToSeq(S \ {x})
RECURSIVE SubsetsUpTo(_, _)
SubsetsUpTo(pool, k) ==
    IF k = 0 THEN {{}}
    ELSE LET smaller == SubsetsUpTo(pool, k - 1)
         IN smaller \cup {D \cup {x} : D \in smaller, x \in pool}
UpTo(pool, k) == {SetToSeq(D) : D \in SubsetsUpTo(pool, k)}

Dep(src, dst, dtype, var, source, sink) ==
    [src |-> src, dst |-> dst, dtype |-> dtype, var |-> var, source |-> source, sink |-> sink]

(* the state of a freshly constructed detector on graph g *)
Fresh(g, ld, rv) ==
    /\ pet = g
    /\ loop_data = ld
    /\ reduction_vars = rv
    /\ pipeline = [v \in 1..g.n |-> Pos(FZero)]
    /\ reduction = [v \in 1..g.n |-> FALSE]
    /\ doAll = [v \in 1..g.n |-> FALSE]
    /\ geomDecomp = [v \in 1..g.n |-> FALSE]
    /\ mwType = [v \in 1..g.n |-> "FORK"]
    /\ loop_iterations = [v \in 1..g.n |-> -1]
    /\ result = <<>>
    /\ mw = MwIdle
    /\ viz = VizFresh(g.n)
    /\ bar = BarIdle

(* ------------------------------------------------------------------ *)
(* detect_patterns                                                     *)
(* ------------------------------------------------------------------ *)
(* a pass order in which do-all detection comes last *)
detect_patterns_do_all_last == <<"merge", "pipeline", "reduction", "task", "geom", "do_all">>

(* the calls of detect_patterns, in order *)
detect_patterns == <<"merge", "pipeline", "reduction", "do_all", "task", "geom">>

pass_nodes(g, pass) ==
    LET vs == [i \in 1..g.n |-> i]
    IN IF pass \in {"pipeline", "reduction", "do_all", "gd"} THEN SelectSeq(vs, LAMBDA v : g.type[v] = "loop")
       ELSE IF pass \in {"task", "mw", "suggest"} THEN vs
       ELSE IF pass = "geom" THEN SelectSeq(vs, LAMBDA v : g.type[v] = "func")
       ELSE <<>>

(* the passes left once the current one is over: a pass whose vertex loop has
   nothing to visit is over at once *)
RECURSIVE skip_empty(_, _)
skip_empty(g, pl) ==
    IF pl = <<>> \/ Head(pl) = "merge" \/ pass_nodes(g, Head(pl)) # <<>> THEN pl
    ELSE skip_empty(g, Tail(pl))

Begun == todo' = IF plan' = <<>> THEN <<>> ELSE pass_nodes(pet', Head(plan'))
InPass(pass) == plan # <<>> /\ Head(plan) = pass /\ todo # <<>>

Merge ==
    /\ plan # <<>> /\ Head(plan) = "merge"
    /\ pet' = merge(pet)
    /\ plan' = skip_empty(pet', Tail(plan))
    /\ Begun
    /\ UNCHANGED <<loop_data, reduction_vars, pipeline, reduction, doAll, geomDecomp,
                   mwType, loop_iterations, result, mw, viz, bar>>

NextTodo == IF Tail(todo) # <<>> THEN Tail(todo)
            ELSE IF plan' = <<>> THEN <<>> ELSE pass_nodes(pet, Head(plan'))

Step(pass) ==
    /\ InPass(pass)
    /\ plan' = IF Tail(todo) = <<>> THEN skip_empty(pet, Tail(plan)) ELSE plan
    /\ todo' = NextTodo

(* line 168 without the assignment of the returned value *)
store_pipeline_skipped(p, node, ret) == p

(* line 168: the returned value is stored on the node *)
store_pipeline(p, node, ret) == [p EXCEPT ![node] = Pos(ret)]

DetectPipelineLoop ==
    /\ Step("pipeline")
    /\ LET node == Head(todo)
           r == detect_pipeline(node)
           p1 == IF r.stored THEN [pipeline EXCEPT ![node] = MinusOne] ELSE pipeline
       IN pipeline' = store_pipeline(p1, node, r.ret)
    /\ UNCHANGED <<pet, loop_data, reduction_vars, reduction, doAll, geomDecomp,
                   mwType, loop_iterations, result, mw, viz, bar>>

DetectReductionLoop ==
    /\ Step("reduction")
    /\ reduction' = IF detect_reduction(Head(todo)) THEN [reduction EXCEPT ![Head(todo)] = TRUE] ELSE reduction
    /\ UNCHANGED <<pet, loop_data, reduction_vars, pipeline, doAll, geomDecomp,
                   mwType, loop_iterations, result, mw, viz, bar>>

(* a do-all pass that also clears the reduction flag of the loop it visits *)
DetectDoAllLoopClearingReduction ==
    /\ Step("do_all")
    /\ LET val == detect_do_all(Head(todo))
       IN doAll' = IF FLess(do_all_threshold, val) THEN [doAll EXCEPT ![Head(todo)] = TRUE] ELSE doAll
    /\ reduction' = [reduction EXCEPT ![Head(todo)] = FALSE]
    /\ UNCHANGED <<pet, loop_data, reduction_vars, pipeline, geomDecomp,
                   mwType, loop_iterations, result, mw, viz, bar>>

DetectDoAllLoop ==
    /\ Step("do_all")
    /\ LET val == detect_do_all(Head(todo))
       IN doAll' = IF FLess(do_all_threshold, val) THEN [doAll EXCEPT ![Head(todo)] = TRUE] ELSE doAll
    /\ UNCHANGED <<pet, loop_data, reduction_vars, pipeline, reduction, geomDecomp,
                   mwType, loop_iterations, result, mw, viz, bar>>

DetectTaskParallelismLoop ==
    /\ Step("task")
    /\ mwType' = task_parallelism_vertex(Head(todo), mwType)
    /\ UNCHANGED <<pet, loop_data, reduction_vars, pipeline, reduction, doAll, geomDecomp,
                   loop_iterations, result, mw, viz, bar>>

DetectGeometricDecompositionLoop ==
    /\ Step("geom")
    /\ LET node == Head(todo)
           val == detect_geometric_decomposition(node)
       IN /\ geomDecomp' = IF val THEN [geomDecomp EXCEPT ![node] = TRUE] ELSE geomDecomp
          /\ loop_iterations' = IF val THEN test_chunk_limit(node, loop_iterations).memo ELSE loop_iterations
    /\ UNCHANGED <<pet, loop_data, reduction_vars, pipeline, reduction, doAll,
                   mwType, result, mw, viz, bar>>

Next ==
    \/ Merge
    \/ DetectPipelineLoop
    \/ DetectReductionLoop
    \/ DetectDoAllLoop
    \/ DetectTaskParallelismLoop
    \/ DetectGeometricDecompositionLoop

(* lines: node k starts at line k; a CU or dummy ends where it starts, a loop
   or function one line further down *)
PlainStart(n) == [k \in 1..n |-> k]
PlainEnd(n, ty) == [k \in 1..n |-> IF ty[k] \in {"loop", "func"} THEN k + 1 ELSE k]

SmallPets ==
    UNION {UNION {UNION {
        {MkPet(n, ty, par, deps, PlainStart(n), PlainEnd(n, ty),
               [k \in 1..n |-> IF ty[k] = "cu" THEN {"s"} ELSE {}], [k \in 1..n |-> {}]) :
            deps \in UpTo({Dep(a, b, "RAW", "a", b, a) :
                             a \in {k \in 1..n : ty[k] = "cu"}, b \in {k \in 1..n : ty[k] = "cu"}}, MaxDeps)}
        : par \in TreeParents(n)} : ty \in [1..n -> CuTypes]} : n \in 1..MaxNodes}

Init ==
    \E g \in SmallPets :
      \E rv \in {{}, {[loop_line |-> 2, name |-> "s"]}} :
        /\ Fresh(g, [l \in {1, 2} |-> l], rv)
        /\ plan = detect_patterns
        /\ todo = <<>>

Spec == Init /\ [][Next]_vars

(* ------------------------------------------------------------------ *)
(* __detect_do_all_loop alone, on one loop with CU children            *)
(* ------------------------------------------------------------------ *)
MaxLoopDeps == 2

(* a loop at line 1 with m CU children at lines 2..m+1 *)
LoopOfCus(m, deps) ==
    MkPet(m + 1, [k \in 1..(m + 1) |-> IF k = 1 THEN "loop" ELSE "cu"],
          [k \in 1..(m + 1) |-> IF k = 1 THEN 0 ELSE 1], deps,
          [k \in 1..(m + 1) |-> k], [k \in 1..(m + 1) |-> IF k = 1 THEN m + 1 ELSE k],
          [k \in 1..(m + 1) |-> {}], [k \in 1..(m + 1) |-> {}])

(* dependences between the children: in the loop header (source and sink on
   the loop's line) or in the body (source in the written CU, sink in the
   reading one) *)
LoopDepPool(m) ==
    {Dep(a, b, t, "a", IF h THEN 1 ELSE b, IF h THEN 1 ELSE a) :
        a \in 2..(m + 1), b \in 2..(m + 1), t \in {"RAW", "WAR"}, h \in BOOLEAN}

InitDoAll ==
    \E m \in 0..MaxKids :
      \E deps \in UpTo(LoopDepPool(m), MaxLoopDeps) :
        /\ Fresh(LoopOfCus(m, deps), <<>>, {})
        /\ plan = skip_empty(pet, <<"do_all">>)
        /\ todo = pass_nodes(pet, "do_all")

NextDoAll == DetectDoAllLoop

SpecDoAll == InitDoAll /\ [][NextDoAll]_vars

(* ------------------------------------------------------------------ *)
(* __detect_reduction_loop alone                                       *)
(* ------------------------------------------------------------------ *)
MaxRedNodes == 3

(* local and global variable names a CU may carry *)
CuVars == {<<{}, {}>>, <<{"s"}, {}>>, <<{}, {"s"}>>, <<{"t"}, {}>>}

RedPets ==
    UNION {UNION {UNION {
        {MkPet(n, ty, par, <<>>, PlainStart(n), PlainEnd(n, ty),
               [k \in 1..n |-> IF ty[k] = "cu" THEN cv[k][1] ELSE {}],
               [k \in 1..n |-> IF ty[k] = "cu" THEN cv[k][2] ELSE {}]) :
            cv \in {f \in [1..n -> CuVars] : \A k \in 1..n : ty[k] # "cu" => f[k] = <<{}, {}>>}}
        : par \in TreeParents(n)} : ty \in [1..n -> {"cu", "func", "loop"}]} : n \in 1..MaxRedNodes}

RedTables == SUBSET {[loop_line |-> 1, name |-> "s"], [loop_line |-> 2, name |-> "s"],
                     [loop_line |-> 2, name |-> "t"]}

InitReduction ==
    \E g \in RedPets :
      \E rv \in RedTables :
        /\ Fresh(g, <<>>, rv)
        /\ plan = skip_empty(pet, <<"reduction">>)
        /\ todo = pass_nodes(pet, "reduction")

NextReduction == DetectReductionLoop

SpecReduction == InitReduction /\ [][NextReduction]_vars

(* ------------------------------------------------------------------ *)
(* geometric_decomposition_detector.run_detection                      *)
(* ------------------------------------------------------------------ *)
MaxGdNodes == 4

(* one iteration of the loop over pet.all_nodes(CuType.LOOP) *)
RunDetectionGD ==
    /\ Step("gd")
    /\ LET node == Head(todo)
           r == test_chunk_limit(node, loop_iterations)
       IN IF gd_detect_geometric_decomposition(node)
          THEN /\ geomDecomp' = [geomDecomp EXCEPT ![node] = TRUE]
               /\ loop_iterations' = r.memo
               /\ result' = IF r.test THEN Append(result, [node |-> node, min_iter |-> r.min_iter])
                            ELSE result
          ELSE UNCHANGED <<geomDecomp, loop_iterations, result>>
    /\ UNCHANGED <<pet, loop_data, reduction_vars, pipeline, reduction, doAll, mwType, mw, viz, bar>>

(* what the earlier detectors and the loop counter file may have left on a
   loop: its two flags and the iterations measured for its line *)
LoopKinds ==
    {[do_all |-> FALSE, reduction |-> FALSE, iters |-> 0],
     [do_all |-> FALSE, reduction |-> FALSE, iters |-> 2],
     [do_all |-> FALSE, reduction |-> FALSE, iters |-> 5],
     [do_all |-> TRUE, reduction |-> FALSE, iters |-> 2],
     [do_all |-> FALSE, reduction |-> TRUE, iters |-> 2]}
NoKind == [do_all |-> FALSE, reduction |-> FALSE, iters |-> 0]

(* lines: every node on its own line, or two nodes to a line *)
PairedStart(n) == [k \in 1..n |-> (k + 1) \div 2]
GdLines(n) == {PlainStart(n), PairedStart(n)}

(* loop_data: the count of a line is that of the first loop starting there *)
FirstLoopAt(n, ty, sl, line) == CHOOSE k \in 1..n : /\ ty[k] = "loop" /\ sl[k] = line
                                                     /\ \A j \in 1..(k - 1) : ~(ty[j] = "loop" /\ sl[j] = line)
LoopData(n, ty, sl, kind) ==
    [line \in {sl[k] : k \in {j \in 1..n : ty[j] = "loop"}} |-> kind[FirstLoopAt(n, ty, sl, line)].iters]

InitGD ==
    \E n \in 1..MaxGdNodes :
      \E ty \in [1..n -> {"cu", "func", "loop"}], par \in TreeParents(n), sl \in GdLines(n) :
        \E kind \in [1..n -> LoopKinds \cup {NoKind}] :
          /\ ty[1] # "cu"
          /\ \A k \in 1..n : ty[k] # "loop" => kind[k] = NoKind
          /\ pet = MkPet(n, ty, par, <<>>, sl, [k \in 1..n |-> sl[k] + 1],
                         [k \in 1..n |-> {}], [k \in 1..n |-> {}])
          /\ loop_data = LoopData(n, ty, sl, kind)
          /\ reduction_vars = {}
          /\ pipeline = [v \in 1..n |-> Pos(FZero)]
          /\ reduction = [v \in 1..n |-> kind[v].reduction]
          /\ doAll = [v \in 1..n |-> kind[v].do_all]
          /\ geomDecomp = [v \in 1..n |-> FALSE]
          /\ mwType = [v \in 1..n |-> "FORK"]
          /\ loop_iterations = [v \in 1..n |-> -1]
          /\ result = <<>>
          /\ mw = MwIdle
          /\ viz = VizFresh(n)
          /\ bar = BarIdle
          /\ plan = skip_empty(pet, <<"gd">>)
          /\ todo = pass_nodes(pet, "gd")

NextGD == RunDetectionGD

SpecGD == InitGD /\ [][NextGD]_vars

(* ------------------------------------------------------------------ *)
(* task_parallelism_detector.run_detection, lines 183-191: the vertex  *)
(* loop around __detect_mw_types, one loop iteration per step          *)
(* ------------------------------------------------------------------ *)
MaxRaw == 2

(* lines 190-191 *)
root_fix(node, ty) == IF ty[node] = "NONE" THEN [ty EXCEPT ![node] = "ROOT"] ELSE ty

(* a vertex with children: __detect_mw_types is entered *)
MwEnter ==
    /\ InPass("mw") /\ mw = MwIdle
    /\ pet.type[Head(todo)] # "dummy"
    /\ find_subnodes(Head(todo), "child") # <<>>
    /\ mw' = mw_begin(Head(todo))
    /\ UNCHANGED <<pet, loop_data, reduction_vars, pipeline, reduction, doAll, geomDecomp,
                   mwType, loop_iterations, result, plan, todo, viz, bar>>

(* a dummy, or a vertex without children *)
MwChildless ==
    /\ mw = MwIdle
    /\ Step("mw")
    /\ pet.type[Head(todo)] = "dummy" \/ find_subnodes(Head(todo), "child") = <<>>
    /\ mwType' = IF pet.type[Head(todo)] = "dummy" THEN mwType ELSE root_fix(Head(todo), mwType)
    /\ UNCHANGED <<pet, loop_data, reduction_vars, pipeline, reduction, doAll, geomDecomp,
                   loop_iterations, result, mw, viz, bar>>

(* one iteration of the loops of lines 758-798 *)
MwClassify ==
    /\ InPass("mw") /\ mw.ph = "class"
    /\ LET s == mw_step(mw, mwType, TRUE)
       IN mw' = s.pos /\ mwType' = s.ty
    /\ UNCHANGED <<pet, loop_data, reduction_vars, pipeline, reduction, doAll, geomDecomp,
                   loop_iterations, result, plan, todo, viz, bar>>

(* one iteration of the loops of lines 805-814; after the last one the
   vertex loop goes on with lines 190-191 and the next vertex *)
MwPair ==
    /\ InPass("mw") /\ mw.ph = "pair"
    /\ LET s == mw_step(mw, mwType, TRUE)
       IN /\ mw' = s.pos
          /\ IF s.pos = MwIdle
             THEN mwType' = root_fix(mw.main, s.ty) /\ Step("mw")
             ELSE mwType' = s.ty /\ UNCHANGED <<plan, todo>>
    /\ UNCHANGED <<pet, loop_data, reduction_vars, pipeline, reduction, doAll, geomDecomp,
                   loop_iterations, result, viz, bar>>

(* a function with three CU children, the second of which may have a CU
   child of its own; between two children up to MaxRaw RAW edges each way,
   from the grandchild at most one RAW edge to each of the other children *)
SiblingPairs == <<<<2, 3>>, <<2, 4>>, <<3, 2>>, <<3, 4>>, <<4, 2>>, <<4, 3>>>>
RawEdges(mult) ==
    Flatten([p \in 1..Len(SiblingPairs) |->
                [k \in 1..mult[p] |-> Dep(SiblingPairs[p][1], SiblingPairs[p][2], "RAW", "a",
                                          SiblingPairs[p][2], SiblingPairs[p][1])]], 1)
MwPets ==
    {MkPet(4, <<"func", "cu", "cu", "cu">>, <<0, 1, 1, 1>>, RawEdges(mult),
           PlainStart(4), <<5, 2, 3, 4>>, [k \in 1..4 |-> {}], [k \in 1..4 |-> {}]) :
        mult \in [1..Len(SiblingPairs) -> 0..MaxRaw]}
    \cup
    {MkPet(5, <<"func", "cu", "cu", "cu", "cu">>, <<0, 1, 1, 1, 3>>,
           RawEdges(mult) \o SetToSeq({Dep(5, b, "RAW", "a", b, 5) : b \in to}),
           PlainStart(5), <<5, 2, 3, 4, 5>>, [k \in 1..5 |-> {}], [k \in 1..5 |-> {}]) :
        mult \in [1..Len(SiblingPairs) -> 0..MaxRaw], to \in SUBSET {2, 4}}

InitMW ==
    \E g \in MwPets :
        /\ Fresh(g, <<>>, {})
        /\ plan = <<"mw">>
        /\ todo = pass_nodes(pet, "mw")

NextMW ==
    \/ MwEnter
    \/ MwChildless
    \/ MwClassify
    \/ MwPair

SpecMW == InitMW /\ [][NextMW]_vars

(* ------------------------------------------------------------------ *)
(* task_parallelism_detector.__detect_barrier_suggestions, called on   *)
(* its own result a second time                                        *)
(* ------------------------------------------------------------------ *)
MaxBarDeps == 4

(* the text of a line number, and the order of Python strings on such texts *)
RECURSIVE Digits(_)
Digits(n) == IF n < 10 THEN <<n>> ELSE Append(Digits(n \div 10), n % 10)
RECURSIVE StrGreater(_, _)
StrGreater(a, b) ==
    IF a = <<>> THEN FALSE
    ELSE IF b = <<>> THEN TRUE
    ELSE IF Head(a) # Head(b) THEN Head(a) > Head(b)
    ELSE StrGreater(Tail(a), Tail(b))

(* startsAtLine / endsAtLine behind the colon *)
first_line(v) == Digits(pet.startsAtLine[v])
last_line(v) == Digits(pet.endsAtLine[v])

TaskwaitInfo(v) ==
    [type |-> "TaskParallelismInfo", node |-> v, pragma |-> <<"taskwait">>, pragma_line |-> first_line(v)]

(* barrier_nodes.append(v) without the append *)
add_barrier_forgotten(barrier_nodes, v) == barrier_nodes

add_barrier(barrier_nodes, v) == Append(barrier_nodes, v)

(* a flag that is tested but never set *)
set_flag_skipped(prop, v) == prop

(* pet.graph.vp.<flag>[v] = 'True' *)
set_flag(prop, v) == [prop EXCEPT ![v] = "True"]

SetTrue(prop, nodes) == [v \in DOMAIN prop |-> IF v \in nodes THEN "True" ELSE prop[v]]

(* lines 334-351 *)
BarrierCall ==
    /\ plan # <<>> /\ Head(plan) = "barrier" /\ bar.pc = "call"
    /\ LET tpi == SelectSeq(result, LAMBDA s : s.type # "ParallelRegionInfo")
           taskwait_suggestions == SelectSeq(tpi, LAMBDA s : s.pragma[1] = "taskwait")
           task_suggestions == SelectSeq(tpi, LAMBDA s : s.pragma[1] # "taskwait")
       IN /\ viz' = [viz EXCEPT
                       !.contains_task = SetTrue(@, {s.node : s \in Range(task_suggestions)}),
                       !.contains_taskwait = SetTrue(@, {s.node : s \in Range(taskwait_suggestions)})]
          /\ bar' = [pc |-> "while",
                     task_nodes |-> [i \in 1..Len(task_suggestions) |-> task_suggestions[i].node],
                     barrier_nodes |-> [i \in 1..Len(taskwait_suggestions) |-> taskwait_suggestions[i].node],
                     transformation_happened |-> TRUE,
                     scans |-> 0]
    /\ UNCHANGED <<pet, loop_data, reduction_vars, pipeline, reduction, doAll, geomDecomp,
                   mwType, loop_iterations, result, plan, todo, mw>>

(* line 353, and the return of line 426; scans counts the scans of the
   vertices this call has begun *)
BarrierWhile ==
    /\ plan # <<>> /\ Head(plan) = "barrier" /\ bar.pc = "while"
    /\ IF bar.transformation_happened
       THEN /\ bar' = [bar EXCEPT !.pc = "for", !.transformation_happened = FALSE, !.scans = @ + 1]
            /\ todo' = vertices
            /\ plan' = plan
       ELSE /\ bar' = BarIdle
            /\ todo' = <<>>
            /\ plan' = Tail(plan)
    /\ UNCHANGED <<pet, loop_data, reduction_vars, pipeline, reduction, doAll, geomDecomp,
                   mwType, loop_iterations, result, mw, viz>>

task_count(v) == Cardinality({e \in out_deps(v) : pet.deps[e].dst \in Range(bar.task_nodes)})
barrier_count(v) ==
    Cardinality({e \in out_deps(v) : /\ pet.deps[e].dst \notin Range(bar.task_nodes)
                                     /\ pet.deps[e].dst \in Range(bar.barrier_nodes)})

(* lines 378-398 *)
uncovered_task_exists(v) ==
    LET child_barriers == {pet.deps[e].dst : e \in {k \in out_deps(v) : viz.contains_taskwait[pet.deps[k].dst] = "True"}}
        child_tasks == {pet.deps[e].dst : e \in {k \in out_deps(v) : viz.contains_task[pet.deps[k].dst] = "True"}}
    IN \E ct \in child_tasks : \E cb \in child_barriers :
          ~(StrGreater(first_line(cb), first_line(ct)) /\ StrGreater(last_line(cb), last_line(ct)))

(* the change one vertex makes: "omittable", "taskwait" or "none" *)
barrier_change(v) ==
    IF task_count(v) = 1 /\ barrier_count(v) = 0
    THEN IF viz.omittable[v] = "False" THEN "omittable" ELSE "none"
    ELSE IF barrier_count(v) # 0 /\ task_count(v) # 0
    THEN IF uncovered_task_exists(v) /\ viz.contains_taskwait[v] = "False" THEN "taskwait" ELSE "none"
    ELSE IF task_count(v) # 0
    THEN IF viz.contains_taskwait[v] = "False" THEN "taskwait" ELSE "none"
    ELSE "none"

(* one iteration of the loop of line 355 *)
BarrierVisit ==
    /\ plan # <<>> /\ Head(plan) = "barrier" /\ bar.pc = "for" /\ todo # <<>>
    /\ LET v == Head(todo)
           change == barrier_change(v)
       IN /\ viz' = IF change = "omittable" THEN [viz EXCEPT !.omittable = set_flag(@, v)]
                    ELSE IF change = "taskwait" THEN [viz EXCEPT !.contains_taskwait = set_flag(@, v)]
                    ELSE viz
          /\ result' = IF change = "taskwait" THEN Append(result, TaskwaitInfo(v)) ELSE result
          /\ bar' = [bar EXCEPT
                       !.barrier_nodes = IF change = "taskwait" THEN add_barrier(@, v) ELSE @,
                       !.transformation_happened = @ \/ change # "none",
                       !.pc = IF Tail(todo) = <<>> THEN "while" ELSE "for"]
    /\ todo' = Tail(todo)
    /\ UNCHANGED <<pet, loop_data, reduction_vars, pipeline, reduction, doAll, geomDecomp,
                   mwType, loop_iterations, plan, mw>>

(* three nodes on lines whose texts and numbers are ordered differently, up
   to MaxBarDeps dependence edges, and for every node a task suggestion, a
   taskwait suggestion or none, with the parallel region of the tasks *)
BarLines == {<<2, 9, 10>>, <<10, 2, 9>>, <<9, 10, 2>>}
BarPets ==
    UNION {{MkPet(3, <<"func", "cu", "cu">>, <<0, 1, 1>>, deps, sl, sl,
                  [k \in 1..3 |-> {}], [k \in 1..3 |-> {}]) :
               deps \in UpTo({Dep(p[1], p[2], "RAW", "a", sl[p[2]], sl[p[1]]) :
                                   p \in {q \in (1..3) \X (1..3) : q[1] # q[2]}}, MaxBarDeps)}
           : sl \in BarLines}
Suggested(g, choice) ==
    Flatten([v \in 1..g.n |->
                IF choice[v] = "none" THEN <<>>
                ELSE <<[type |-> "TaskParallelismInfo", node |-> v, pragma |-> <<choice[v]>>,
                        pragma_line |-> Digits(g.startsAtLine[v])]>>], 1)
        \o (IF \E v \in 1..g.n : choice[v] = "task"
            THEN <<[type |-> "ParallelRegionInfo", node |-> 1, pragma |-> <<>>, pragma_line |-> <<>>]>>
            ELSE <<>>)

InitBarrier ==
    \E g \in BarPets :
      \E choice \in [1..3 -> {"none", "task", "taskwait"}] :
        /\ pet = g
        /\ loop_data = <<>>
        /\ reduction_vars = {}
        /\ pipeline = [v \in 1..g.n |-> Pos(FZero)]
        /\ reduction = [v \in 1..g.n |-> FALSE]
        /\ doAll = [v \in 1..g.n |-> FALSE]
        /\ geomDecomp = [v \in 1..g.n |-> FALSE]
        /\ mwType = [v \in 1..g.n |-> "FORK"]
        /\ loop_iterations = [v \in 1..g.n |-> -1]
        /\ result = Suggested(g, choice)
        /\ mw = MwIdle
        /\ viz = VizFresh(g.n)
        /\ bar = BarIdle
        /\ plan = <<"barrier", "barrier">>
        /\ todo = <<>>

NextBarrier ==
    \/ BarrierCall
    \/ BarrierWhile
    \/ BarrierVisit

SpecBarrier == InitBarrier /\ [][NextBarrier]_vars

(* the while loop of line 353 keeps running: a step that can be taken is taken *)
SpecBarrierFair == InitBarrier /\ [][NextBarrier]_vars /\ WF_vars(NextBarrier)

(* ------------------------------------------------------------------ *)
(* __detect_pipeline_loop alone, on a loop whose children lie on the   *)
(* loop's first line, on its last line, or between them                *)
(* ------------------------------------------------------------------ *)
MaxStageDeps == 1

(* start and end line of a child of the loop of lines 1 to 3 *)
StageLines == {<<1, 1>>, <<3, 3>>, <<2, 2>>, <<2, 3>>}

StagePets ==
    UNION {UNION {
        {MkPet(m + 1, [k \in 1..(m + 1) |-> IF k = 1 THEN "loop" ELSE ty[k - 1]],
               [k \in 1..(m + 1) |-> IF k = 1 THEN 0 ELSE 1], deps,
               [k \in 1..(m + 1) |-> IF k = 1 THEN 1 ELSE ln[k - 1][1]],
               [k \in 1..(m + 1) |-> IF k = 1 THEN 3 ELSE ln[k - 1][2]],
               [k \in 1..(m + 1) |-> {}], [k \in 1..(m + 1) |-> {}]) :
            ty \in [1..m -> {"cu", "loop"}],
            deps \in UpTo({Dep(p[1], p[2], "RAW", "a", ln[p[2] - 1][1], ln[p[1] - 1][1]) :
                             p \in {q \in (2..(m + 1)) \X (2..(m + 1)) : q[1] # q[2]}}, MaxStageDeps)}
        : ln \in [1..m -> StageLines]} : m \in 0..MaxKids}

InitPipeline ==
    \E g \in StagePets :
        /\ Fresh(g, <<>>, {})
        /\ plan = <<"pipeline">>
        /\ todo = pass_nodes(pet, "pipeline")

NextPipeline == DetectPipelineLoop

SpecPipeline == InitPipeline /\ [][NextPipeline]_vars

(* ------------------------------------------------------------------ *)
(* The graph queries of PETGraphX and of PatternDetector, applied to   *)
(* graphs in which a node may be the child of two parents and in which *)
(* a child reference may name a node without a record                  *)
(* ------------------------------------------------------------------ *)
MaxQueryNodes == 4

(* g with one more child edge p -> c, as __init__ line 173 adds it *)
WithChildEdge(g, p, c) ==
    [g EXCEPT !.children[p] = SelectSeq([i \in 1..g.n |-> i], LAMBDA x : x = c \/ x \in Range(g.children[p]))]

(* a node that add_edge created for a reference without a record carries no
   'data' attribute *)
has_data(v) == pet.type[v] # "nodata"

(* node_at raises KeyError somewhere in subtree_of_type(root, type) *)
RECURSIVE subtree_raises(_)
subtree_raises(root) ==
    \E t \in Range(pet.children[root]) : ~has_data(t) \/ subtree_raises(t)

NoError(fn, root, type, out) == [fn |-> fn, root |-> root, type |-> type, err |-> "", out |-> out]
Raised(fn, root, type, err) == [fn |-> fn, root |-> root, type |-> type, err |-> err, out |-> <<>>]

QueryFrame ==
    UNCHANGED <<pet, loop_data, reduction_vars, pipeline, reduction, doAll, geomDecomp,
                mwType, loop_iterations, plan, todo, mw, viz, bar>>

(* one query is put to a constructed graph *)
CanQuery == plan = <<"query">> /\ result = <<>>

(* PETGraphX.subtree_of_type *)
QuerySubtreeOfType ==
    /\ CanQuery
    /\ \E root \in {v \in Nodes : has_data(v)}, type \in {"cu", "func", "loop"} :
          result' = <<IF subtree_raises(root) THEN Raised("subtree_of_type", root, type, "KeyError")
                      ELSE NoError("subtree_of_type", root, type, subtree_of_type(root, type))>>
    /\ QueryFrame

(* PETGraphX.direct_children_of_type *)
QueryDirectChildrenOfType ==
    /\ CanQuery
    /\ \E root \in {v \in Nodes : has_data(v)}, type \in {"cu", "func", "loop"} :
          result' = <<IF \E t \in Range(pet.children[root]) : ~has_data(t)
                      THEN Raised("direct_children_of_type", root, type, "KeyError")
                      ELSE NoError("direct_children_of_type", root, type, direct_children_of_type(root, type))>>
    /\ QueryFrame

(* PETGraphX.all_nodes: type "None" stands for the call without a type, which
   lists the missing data of a record-less node as node 0 *)
QueryAllNodes ==
    /\ CanQuery
    /\ \E type \in {"None", "cu", "func", "loop"} :
          result' = <<IF type = "None"
                      THEN NoError("all_nodes", 0, type, [i \in 1..pet.n |-> IF has_data(i) THEN i ELSE 0])
                      ELSE IF \E v \in Nodes : ~has_data(v)
                      THEN Raised("all_nodes", 0, type, "AttributeError")
                      ELSE NoError("all_nodes", 0, type, all_nodes(type))>>
    /\ QueryFrame

(* PatternDetector.get_subtree_of_type, on graphs with a record for every node *)
QueryGetSubtreeOfType ==
    /\ CanQuery
    /\ \A v \in Nodes : has_data(v)
    /\ \E root \in Nodes, type \in {"cu", "func", "loop", "*"} :
          result' = <<NoError("get_subtree_of_type", root, type, get_subtree_of_type(root, type))>>
    /\ QueryFrame

(* PETGraphX.is_loop_index: some RAW edge on var_name out of a child *)
px_is_loop_index(var_name, loops_start_lines, children) ==
    \E c \in children :
        \E k \in out_deps(c) :
            /\ pet.deps[k].dtype = "RAW" /\ pet.deps[k].var = var_name
            /\ pet.deps[k].sink = pet.deps[k].source
            /\ pet.deps[k].source \in loops_start_lines
            /\ pet.deps[k].dst \in children

(* PETGraphX.is_readonly_inside_loop_body *)
px_is_readonly_inside_loop_body(dep, root_loop) ==
    LET loops_start_lines == {pet.startsAtLine[v] : v \in Range(subtree_of_type(root_loop, "loop"))}
        children == Range(subtree_of_type(root_loop, "cu"))
    IN \A v \in children :
          /\ \A e \in out_deps(v) :
                (pet.deps[e].dtype \in {"WAR", "WAW"}) =>
                    ~(pet.deps[dep].var = pet.deps[e].var /\ pet.deps[e].sink \notin loops_start_lines)
          /\ \A e \in in_deps(v) :
                (pet.deps[e].dtype = "RAW") =>
                    ~(pet.deps[dep].var = pet.deps[e].var /\ pet.deps[e].source \notin loops_start_lines)

(* PETGraphX.get_all_dependencies *)
px_get_all_dependencies(node, root_loop) ==
    LET children == Range(subtree_of_type(node, "cu"))
        loops_start_lines == {pet.startsAtLine[v] : v \in Range(subtree_of_type(root_loop, "loop"))}
        kept == {e \in UNION {out_deps(v) : v \in children} :
                    /\ pet.deps[e].dtype = "RAW"
                    /\ ~(\/ px_is_loop_index(pet.deps[e].var, loops_start_lines,
                                             Range(subtree_of_type(root_loop, "cu")))
                         \/ px_is_readonly_inside_loop_body(e, root_loop))}
    IN {pet.deps[e].dst : e \in kept}

Deps(fn, node, root_loop, out) == [fn |-> fn, root |-> node, root_loop |-> root_loop, err |-> "", out |-> out]

(* get_all_dependencies(node, root_loop) of PETGraphX and of PatternDetector,
   for a loop and a node in it, on graphs with a record for every node *)
QueryGetAllDependencies ==
    /\ CanQuery
    /\ \A v \in Nodes : has_data(v)
    /\ \E root_loop \in {v \in Nodes : pet.type[v] = "loop"} :
         \E node \in Range(subtree_of_type(root_loop, "cu")) \cup Range(subtree_of_type(root_loop, "loop")) :
            \/ result' = <<Deps("PETGraphX.get_all_dependencies", node, root_loop,
                                px_get_all_dependencies(node, root_loop))>>
            \/ result' = <<Deps("PatternDetector.get_all_dependencies", node, root_loop,
                                get_all_dependencies(node, root_loop))>>
    /\ QueryFrame

QueryTypes(n) ==
    {ty \in [1..n -> {"cu", "func", "loop", "nodata"}] :
        /\ \A k \in 1..(n - 1) : ty[k] # "nodata"
        /\ n = 1 => ty[n] # "nodata"}

(* dependence edges from the first CU to the last: none, one on variable "a"
   between the lines of the two CUs, one on "a" from the start line of the
   first loop onto itself, or both *)
QueryDeps(n, ty) ==
    LET cus == {k \in 1..n : ty[k] = "cu"}
        ends == {q \in cus \X cus : /\ Cardinality(cus) > 1
                                     /\ \A o \in cus : q[1] <= o /\ q[2] >= o}
        loops == {k \in 1..n : ty[k] = "loop" /\ \A o \in 1..n : ty[o] = "loop" => k <= o}
    IN {<<>>}
       \cup {<<Dep(q[1], q[2], "RAW", "a", q[2], q[1])>> : q \in ends}
       \cup {<<Dep(q[1], q[2], "RAW", "a", l, l)>> : q \in ends, l \in loops}
       \cup {<<Dep(q[1], q[2], "RAW", "a", q[2], q[1]), Dep(q[1], q[2], "RAW", "a", l, l)>> :
                q \in ends, l \in loops}

QueryPets ==
    UNION {UNION {UNION {UNION {
        LET g == MkPet(n, ty, par, deps, PlainStart(n), PlainEnd(n, ty),
                       [k \in 1..n |-> {}], [k \in 1..n |-> {}])
        IN {g} \cup {WithChildEdge(g, e[1], e[2]) :
                        e \in {q \in (1..n) \X (1..n) : q[1] < q[2] /\ par[q[2]] # q[1] /\ ty[q[1]] # "nodata"}}
        : deps \in QueryDeps(n, ty)}
        : par \in TreeParents(n)} : ty \in QueryTypes(n)} : n \in 1..MaxQueryNodes}

InitQuery ==
    \E g \in QueryPets :
        /\ Fresh(g, <<>>, {})
        /\ plan = <<"query">>
        /\ todo = <<>>

NextQuery ==
    \/ QuerySubtreeOfType
    \/ QueryDirectChildrenOfType
    \/ QueryAllNodes
    \/ QueryGetSubtreeOfType
    \/ QueryGetAllDependencies

SpecQuery == InitQuery /\ [][NextQuery]_vars

(* ------------------------------------------------------------------ *)
(* GDInfo.__init__: the number of tasks of a geometric decomposition   *)
(* ------------------------------------------------------------------ *)
MaxIterDigit == 5
MaxIterPow == 7
MaxWorkPow == 3

(* a double with a sign: a is the magnitude *)
Plus(a) == [neg |-> FALSE, a |-> a]
Minus(a) == [neg |-> a # FZero, a |-> a]
(* a - b for non-negative doubles a and b *)
SignedSub(a, b) == IF FLess(a, b) THEN Minus(FSub(b, a)) ELSE Plus(FSub(a, b))
(* x - b for a signed x and a non-negative b *)
SignedLess(x, b) == IF x.neg THEN Minus(FAdd(x.a, b)) ELSE SignedSub(x.a, b)

RECURSIVE LToNat(_)
LToNat(a) == IF a = <<>> THEN 0 ELSE Head(a) + LimbBase * LToNat(Tail(a))
(* math.floor of a non-negative double *)
Floor(a) == IF a.m = <<>> THEN 0 ELSE LToNat(IF a.e >= 0 THEN LShl(a.m, a.e) ELSE LShr(a.m, -a.e))

MinIters == {0} \cup {d * 10 ^ p : d \in 1..MaxIterDigit, p \in 0..MaxIterPow}
Workloads == {0} \cup {10 ^ (2 * p) : p \in 0..MaxWorkPow}

(* math.sqrt(min_iter) and math.sqrt(self.workload), tabulated *)
SqrtTable == [k \in MinIters \cup Workloads |-> FSqrt(FFromNat(k))]
(* the literals 1.1, 0.0002 and 0.0000002: the doubles nearest to them *)
Lit_1_1 == FDiv(FFromNat(11), FFromNat(10))
Lit_0_0002 == FDiv(FFromNat(2), FFromNat(10000))
Lit_0_0000002 == FDiv(FFromNat(2), FFromNat(10000000))

(* nt = 1.1 * mi_sqrt + 0.0002 * wl - 0.0000002 * mi_sqrt * wl - 10 *)
task_estimate(min_iter, workload) ==
    LET mi_sqrt == SqrtTable[min_iter]
        wl == SqrtTable[workload]
        lin == FAdd(FMul(Lit_1_1, mi_sqrt), FMul(Lit_0_0002, wl))
        mixed == FMul(FMul(Lit_0_0000002, mi_sqrt), wl)
    IN SignedLess(SignedSub(lin, mixed), FFromNat(10))

(* the branches tested with the hundreds after the tens *)
num_tasks_tens_first(nt) ==
    IF ~nt.neg /\ ~FLess(nt.a, FFromNat(100)) THEN Floor(FDiv(nt.a, FFromNat(10))) * 10
    ELSE IF ~nt.neg /\ ~FLess(nt.a, FFromNat(1000)) THEN Floor(FDiv(nt.a, FFromNat(100))) * 100
    ELSE IF nt.neg THEN 2
    ELSE Floor(nt.a)

num_tasks(nt) ==
    IF ~nt.neg /\ ~FLess(nt.a, FFromNat(1000)) THEN Floor(FDiv(nt.a, FFromNat(100))) * 100
    ELSE IF ~nt.neg /\ ~FLess(nt.a, FFromNat(100)) THEN Floor(FDiv(nt.a, FFromNat(10))) * 10
    ELSE IF nt.neg THEN 2
    ELSE Floor(nt.a)

(* GDInfo(pet, node, min_iter) for a node of workload todo[2] *)
GDInfoInit ==
    /\ plan = <<"gdinfo">>
    /\ LET nt == task_estimate(todo[1], todo[2])
       IN result' = <<[min_iter_number |-> todo[1], workload |-> todo[2], nt |-> nt,
                       num_tasks |-> num_tasks(nt)]>>
    /\ plan' = <<>>
    /\ UNCHANGED <<pet, loop_data, reduction_vars, pipeline, reduction, doAll, geomDecomp, mwType,
                   loop_iterations, todo, mw, viz, bar>>

InitTasks ==
    \E min_iter \in MinIters, workload \in Workloads :
        /\ Fresh(MkPet(1, <<"loop">>, <<0>>, <<>>, PlainStart(1), PlainEnd(1, <<"loop">>),
                       <<{}>>, <<{}>>), <<>>, {})
        /\ plan = <<"gdinfo">>
        /\ todo = <<min_iter, workload>>

NextTasks == GDInfoInit
SpecTasks == InitTasks /\ [][NextTasks]_vars

(* ------------------------------------------------------------------ *)
(* __detect_reduction_loop run twice, after do-all detection           *)
(* ------------------------------------------------------------------ *)
(* the orders in which a vertex iteration may deliver the nodes of s *)
Orders(s) == {o \in [1..Len(s) -> Range(s)] : \A i, j \in 1..Len(s) : o[i] = o[j] => i = j}

(* do_all flags left on the loops by an earlier do-all pass *)
DoAllFlags(g) == {f \in [1..g.n -> BOOLEAN] : \A v \in 1..g.n : f[v] => g.type[v] = "loop"}

InitReductionRuns ==
    \E g \in RedPets :
      \E rv \in RedTables, flags \in DoAllFlags(g), order \in Orders(pass_nodes(g, "reduction")) :
        /\ pet = g
        /\ loop_data = <<>>
        /\ reduction_vars = rv
        /\ pipeline = [v \in 1..g.n |-> Pos(FZero)]
        /\ reduction = [v \in 1..g.n |-> FALSE]
        /\ doAll = flags
        /\ geomDecomp = [v \in 1..g.n |-> FALSE]
        /\ mwType = [v \in 1..g.n |-> "FORK"]
        /\ loop_iterations = [v \in 1..g.n |-> -1]
        /\ result = <<>>
        /\ mw = MwIdle
        /\ viz = VizFresh(g.n)
        /\ bar = BarIdle
        /\ plan = skip_empty(g, <<"reduction", "reduction">>)
        /\ todo = order

NextReductionRuns == DetectReductionLoop

SpecReductionRuns == InitReductionRuns /\ [][NextReductionRuns]_vars

(* ------------------------------------------------------------------ *)
(* task_parallelism_detector.run_detection: the role classification    *)
(* followed by __detect_task_suggestions, on graphs without recursive  *)
(* function calls                                                      *)
(* ------------------------------------------------------------------ *)
MaxSinkEdges == 2

(* lines 247-255: the line of the taskwait of barrier v; the number the sinks
   are compared with stays that of the end line of v *)
first_dependency_line(v) ==
    LET first_dependency_line_number == last_line(v)
        edges == SelectSeq([k \in 1..Len(pet.deps) |-> k], LAMBDA k : pet.deps[k].src = v)
        lower == SelectSeq(edges, LAMBDA k : StrGreater(first_dependency_line_number,
                                                        Digits(pet.deps[k].sink)))
    IN IF lower = <<>> THEN last_line(v) ELSE Digits(pet.deps[lower[Len(lower)]].sink)

(* the keys of the suggestions dict, in the order of their insertion *)
RECURSIVE dict_keys(_)
dict_keys(lines) ==
    IF lines = <<>> THEN <<>>
    ELSE <<Head(lines)>> \o dict_keys(SelectSeq(Tail(lines), LAMBDA l : l # Head(lines)))

(* lines 235-266 and 316-321: a taskwait for every BARRIER, listed by start line *)
detect_task_suggestions ==
    LET barrier_cus == SelectSeq(vertices, LAMBDA v : mwType[v] = "BARRIER")
        made == [i \in 1..Len(barrier_cus) |->
                    [type |-> "TaskParallelismInfo", node |-> barrier_cus[i], pragma |-> <<"taskwait">>,
                     pragma_line |-> first_dependency_line(barrier_cus[i])]]
        keys == dict_keys([i \in 1..Len(made) |-> pet.startsAtLine[made[i].node]])
    IN Flatten([k \in 1..Len(keys) |->
                   SelectSeq(made, LAMBDA s : pet.startsAtLine[s.node] = keys[k])], 1)

(* line 204 *)
DetectTaskSuggestions ==
    /\ plan # <<>> /\ Head(plan) = "suggest"
    /\ result' = result \o detect_task_suggestions
    /\ plan' = Tail(plan)
    /\ todo' = <<>>
    /\ UNCHANGED <<pet, loop_data, reduction_vars, pipeline, reduction, doAll, geomDecomp,
                   mwType, loop_iterations, mw, viz, bar>>

(* a function with two CU children; the first ends on line 9 or 10; up to
   MaxSinkEdges RAW edges between the two, each with a sink line of its own *)
SinkLines == {2, 3, 10}
SinkEdges == {Dep(p[1], p[2], "RAW", "a", 11, l) : p \in {<<2, 3>>, <<3, 2>>}, l \in SinkLines}
SinkPets ==
    UNION {{MkPet(3, <<"func", "cu", "cu">>, <<0, 1, 1>>, deps, <<1, 2, 11>>, <<12, e, 11>>,
                  [k \in 1..3 |-> {}], [k \in 1..3 |-> {}]) :
               deps \in UNION {[1..m -> SinkEdges] : m \in 0..MaxSinkEdges}}
           : e \in {9, 10}}

InitSuggest ==
    \E g \in SinkPets :
        /\ Fresh(g, <<>>, {})
        /\ plan = <<"mw", "suggest">>
        /\ todo = pass_nodes(pet, "mw")

NextSuggest ==
    \/ MwEnter
    \/ MwChildless
    \/ MwClassify
    \/ MwPair
    \/ DetectTaskSuggestions

SpecSuggest == InitSuggest /\ [][NextSuggest]_vars

(* ------------------------------------------------------------------ *)
(* task_parallelism_detector.run_detection, lines 205-206: the filter  *)
(* of useless taskwaits and the derivation of parallel regions, on     *)
(* graphs in which a function may be called from several places and    *)
(* may call itself                                                     *)
(* ------------------------------------------------------------------ *)
MaxPostNodes == 4

(* the sources of the child edges that enter v *)
in_sources(v) == SelectSeq(vertices, LAMBDA p : v \in Range(pet.children[p]))

(* lines 685-696: the for loop over the unvisited in-edges of cur_node; hit
   is set by the return of line 689 *)
RECURSIVE parent_edges(_, _, _, _, _, _)
parent_edges(tmpList, i, cur_node, parent_type, only_first, st) ==
    IF i > Len(tmpList) \/ st.hit THEN st
    ELSE parent_edges(tmpList, i + 1, cur_node, parent_type, only_first,
             IF pet.type[tmpList[i]] = parent_type
             THEN IF only_first
                  THEN [st EXCEPT !.res = <<<<tmpList[i], cur_node>>>>, !.hit = TRUE]
                  ELSE [st EXCEPT !.res = Append(@, <<tmpList[i], cur_node>>),
                                  !.visited = @ \cup {tmpList[i]}]
             ELSE IF tmpList[i] \notin st.visited
                  THEN [st EXCEPT !.queue = Append(@, tmpList[i])]
                  ELSE st)

(* lines 678-697: the while loop *)
RECURSIVE parent_search(_, _, _)
parent_search(parent_type, only_first, st) ==
    IF st.queue = <<>> \/ st.hit THEN st.res
    ELSE LET cur_node == Head(st.queue)
             visited == st.visited \cup {cur_node}
             tmpList == SelectSeq(in_sources(cur_node), LAMBDA s : s \notin visited)
         IN parent_search(parent_type, only_first,
                parent_edges(tmpList, 1, cur_node, parent_type, only_first,
                             [st EXCEPT !.queue = Tail(@), !.visited = visited]))

(* __get_parent_of_type over child edges: pairs <<parent, last node before it>> *)
get_parent_of_type(node, parent_type, only_first) ==
    parent_search(parent_type, only_first,
                  [queue |-> <<node>>, visited |-> {}, res |-> <<>>, hit |-> FALSE])

(* __check_reachability over child edges *)
RECURSIVE reach_search(_, _, _)
reach_search(queue, visited, source) ==
    IF queue = <<>> THEN FALSE
    ELSE LET seen == visited \cup {Head(queue)}
             tmpList == SelectSeq(in_sources(Head(queue)), LAMBDA s : s \notin seen)
         IN \/ source \in Range(tmpList)
            \/ reach_search(Tail(queue) \o tmpList, seen, source)
check_reachability(target, source) == reach_search(<<target>>, {}, source)

(* __remove_useless_barrier_suggestions *)
remove_useless_barrier_suggestions(suggestions) ==
    LET taskwait_suggestions == SelectSeq(suggestions, LAMBDA s : s.pragma[1] = "taskwait")
        task_suggestions == SelectSeq(suggestions, LAMBDA s : s.pragma[1] # "taskwait")
        parent == [i \in 1..Len(task_suggestions) |->
                      get_parent_of_type(task_suggestions[i].node, "func", TRUE)[1][1]]
        relevant_function_bodies == dict_keys(parent)
        lines(f) == {task_suggestions[i].pragma_line : i \in {k \in 1..Len(parent) : parent[k] = f}}
        kept(tws) ==
            SelectSeq(relevant_function_bodies,
                      LAMBDA f : /\ check_reachability(tws.node, f)
                                 /\ \E line_number \in lines(f) : ~StrGreater(line_number, tws.pragma_line))
    IN task_suggestions
         \o Flatten([i \in 1..Len(taskwait_suggestions) |->
                        [k \in 1..Len(kept(taskwait_suggestions[i])) |-> taskwait_suggestions[i]]], 1)

(* line 205 *)
RemoveUselessBarrierSuggestions ==
    /\ plan # <<>> /\ Head(plan) = "useless"
    /\ result' = remove_useless_barrier_suggestions(result)
    /\ plan' = Tail(plan)
    /\ UNCHANGED <<pet, loop_data, reduction_vars, pipeline, reduction, doAll, geomDecomp,
                   mwType, loop_iterations, todo, mw, viz, bar>>

(* what __detect_task_suggestions has found at a CU: nothing, a task or a
   taskwait on line 9 or 10, or a task and a taskwait on line 9 *)
(* __suggest_parallel_regions, one action per step of its while loop: the
   queue 'parents' is kept in todo, 'outer_parents' in bar *)
task_parents(suggestions) ==
    Flatten([i \in 1..Len(suggestions) |->
                IF suggestions[i].pragma[1] = "task"
                  THEN get_parent_of_type(suggestions[i].node, "func", FALSE) ELSE <<>>], 1)

(* list(set(parents)): the distinct pairs, in an order the hash decides *)
RegionsBegin ==
    /\ plan # <<>> /\ Head(plan) = "regions" /\ bar.pc = "call"
    /\ \E order \in Orders(SetToSeq(Range(task_parents(result)))) :
         todo' = order
    /\ bar' = [pc |-> "while", outer_parents |-> <<>>]
    /\ UNCHANGED <<pet, loop_data, reduction_vars, pipeline, reduction, doAll, geomDecomp,
                   mwType, loop_iterations, result, plan, mw, viz>>

RegionsWhile ==
    /\ plan # <<>> /\ Head(plan) = "regions" /\ bar.pc = "while" /\ todo # <<>>
    /\ LET p == Head(todo)[1]
           last_node == Head(todo)[2]
           p_parents == get_parent_of_type(p, "func", FALSE)
           first_elements == {bar.outer_parents[i][1] : i \in 1..Len(bar.outer_parents)}
       IN IF p_parents = <<>>
            THEN /\ bar' = [bar EXCEPT !.outer_parents = Append(@, <<p, last_node>>)]
                 /\ todo' = Tail(todo)
            ELSE /\ bar' = bar
                 /\ todo' = Tail(todo) \o SelectSeq(p_parents, LAMBDA x : x[1] \notin first_elements)
    /\ UNCHANGED <<pet, loop_data, reduction_vars, pipeline, reduction, doAll, geomDecomp,
                   mwType, loop_iterations, result, plan, mw, viz>>

ParallelRegionInfo(node, region_start_line, region_end_line) ==
    [type |-> "ParallelRegionInfo", node |-> node,
     region_start_line |-> region_start_line, region_end_line |-> region_end_line]

RegionsEnd ==
    /\ plan # <<>> /\ Head(plan) = "regions" /\ bar.pc = "while" /\ todo = <<>>
    /\ result' = result \o [i \in 1..Len(bar.outer_parents) |->
                              ParallelRegionInfo(bar.outer_parents[i][1],
                                                 pet.startsAtLine[bar.outer_parents[i][2]],
                                                 pet.endsAtLine[bar.outer_parents[i][2]])]
    /\ bar' = BarIdle
    /\ plan' = Tail(plan)
    /\ UNCHANGED <<pet, loop_data, reduction_vars, pipeline, reduction, doAll, geomDecomp,
                   mwType, loop_iterations, todo, mw, viz>>

PostChoices == {<<>>, <<"task", 9>>, <<"task", 10>>, <<"taskwait", 9>>, <<"taskwait", 10>>,
                <<"task", 9, "taskwait", 9>>}
PostInfo(v, pragma, line) ==
    [type |-> "TaskParallelismInfo", node |-> v, pragma |-> <<pragma>>, pragma_line |-> Digits(line)]
(* the taskwaits first, then the tasks, each in the order of the nodes *)
PostSuggested(n, choice) ==
    Flatten([v \in 1..n |-> IF Len(choice[v]) = 2 /\ choice[v][1] = "taskwait"
                              THEN <<PostInfo(v, "taskwait", choice[v][2])>>
                              ELSE IF Len(choice[v]) = 4 THEN <<PostInfo(v, "taskwait", choice[v][4])>>
                              ELSE <<>>], 1)
    \o Flatten([v \in 1..n |-> IF Len(choice[v]) >= 2 /\ choice[v][1] = "task"
                                 THEN <<PostInfo(v, "task", choice[v][2])>> ELSE <<>>], 1)

(* a function 1 with functions and CUs below it, every node with one parent,
   and at most one further child edge that ends in a function: a second call
   site, or a call back to a function above *)
PostPetsOf(n) ==
    UNION {UNION {
        LET g == MkPet(n, ty, par, <<>>, PlainStart(n), PlainEnd(n, ty),
                       [k \in 1..n |-> {}], [k \in 1..n |-> {}])
        IN {g} \cup {WithChildEdge(g, e[1], e[2]) :
                        e \in {q \in (1..n) \X (1..n) :
                                  q[1] # q[2] /\ par[q[2]] # q[1] /\ ty[q[2]] = "func"}}
        : par \in TreeParents(n)} : ty \in {f \in [1..n -> {"func", "cu"}] : f[1] = "func"}}
PostPets == UNION {PostPetsOf(n) : n \in 2..MaxPostNodes}

InitPost ==
    \E g \in PostPets :
      \E choice \in {c \in [1..g.n -> PostChoices] : \A v \in 1..g.n : g.type[v] # "cu" => c[v] = <<>>} :
        /\ pet = g
        /\ loop_data = <<>>
        /\ reduction_vars = {}
        /\ pipeline = [v \in 1..g.n |-> Pos(FZero)]
        /\ reduction = [v \in 1..g.n |-> FALSE]
        /\ doAll = [v \in 1..g.n |-> FALSE]
        /\ geomDecomp = [v \in 1..g.n |-> FALSE]
        /\ mwType = [v \in 1..g.n |-> "FORK"]
        /\ loop_iterations = [v \in 1..g.n |-> -1]
        /\ result = PostSuggested(g.n, choice)
        /\ mw = MwIdle
        /\ viz = VizFresh(g.n)
        /\ bar = BarIdle
        /\ plan = <<"useless", "regions">>
        /\ todo = <<>>

NextPost ==
    \/ RemoveUselessBarrierSuggestions
    \/ RegionsBegin
    \/ RegionsWhile
    \/ RegionsEnd

SpecPost == InitPost /\ [][NextPost]_vars

(* the region derivation alone, on the task suggestions the filter returned,
   with the scheduling of a running loop: a step that can be taken is taken *)
MaxRegionNodes == 3
InitRegions ==
    \E g \in UNION {PostPetsOf(n) : n \in 2..MaxRegionNodes} :
      \E choice \in {c \in [1..g.n -> {<<>>, <<"task", 9>>}] :
                        \A v \in 1..g.n : g.type[v] # "cu" => c[v] = <<>>} :
        /\ pet = g
        /\ loop_data = <<>>
        /\ reduction_vars = {}
        /\ pipeline = [v \in 1..g.n |-> Pos(FZero)]
        /\ reduction = [v \in 1..g.n |-> FALSE]
        /\ doAll = [v \in 1..g.n |-> FALSE]
        /\ geomDecomp = [v \in 1..g.n |-> FALSE]
        /\ mwType = [v \in 1..g.n |-> "FORK"]
        /\ loop_iterations = [v \in 1..g.n |-> -1]
        /\ result = PostSuggested(g.n, choice)
        /\ mw = MwIdle
        /\ viz = VizFresh(g.n)
        /\ bar = BarIdle
        /\ plan = <<"regions">>
        /\ todo = <<>>

NextRegions ==
    \/ RegionsBegin
    \/ RegionsWhile
    \/ RegionsEnd

SpecRegionsFair == InitRegions /\ [][NextRegions]_vars /\ WF_vars(NextRegions)

(* ------------------------------------------------------------------ *)
(* __set_task_contained_lines and __detect_taskloop_reduction           *)
(* ------------------------------------------------------------------ *)
MaxLineSuggestions == 2

(* int() of a text of digits *)
RECURSIVE LineNumber(_)
LineNumber(digits) ==
    IF digits = <<>> THEN 0 ELSE 10 * LineNumber(SubSeq(digits, 1, Len(digits) - 1)) + digits[Len(digits)]

(* a Python value with its type: region_end_line is an int for all but the
   last suggestion of a node and a text for the last *)
py_int(n) == [type |-> "int", text |-> Digits(n)]
py_str(text) == [type |-> "str", text |-> text]

(* TaskParallelismInfo.__init__: the pragma lines of the model carry no file id *)
region_start_line(s) == s.pragma_line

(* list.sort(key = region_start_line): stable, the keys compared as texts *)
RECURSIVE sort_by_region_start_line(_)
sort_by_region_start_line(group) ==
    IF group = <<>> THEN <<>>
    ELSE LET front == sort_by_region_start_line(SubSeq(group, 1, Len(group) - 1))
             s == group[Len(group)]
             before == SelectSeq(front, LAMBDA x : ~StrGreater(region_start_line(x), region_start_line(s)))
             after == SelectSeq(front, LAMBDA x : StrGreater(region_start_line(x), region_start_line(s)))
         IN before \o <<s>> \o after

with_region_end_line(s, end) ==
    [type |-> s.type, node |-> s.node, pragma |-> s.pragma, pragma_line |-> s.pragma_line,
     region_end_line |-> end]

set_task_contained_lines(suggestions) ==
    LET others == SelectSeq(suggestions, LAMBDA s : s.type # "TaskParallelismInfo")
        tasks == SelectSeq(suggestions, LAMBDA s : s.type = "TaskParallelismInfo")
        cus == dict_keys([i \in 1..Len(tasks) |-> tasks[i].node])
        sorted(cu) == sort_by_region_start_line(SelectSeq(tasks, LAMBDA s : s.node = cu))
        ended(cu) ==
            [idx \in 1..Len(sorted(cu)) |->
                IF idx + 1 <= Len(sorted(cu))
                  THEN with_region_end_line(sorted(cu)[idx],
                           py_int(LineNumber(region_start_line(sorted(cu)[idx + 1])) - 1))
                  ELSE with_region_end_line(sorted(cu)[idx], py_str(last_line(cu)))]
    IN others \o Flatten([k \in 1..Len(cus) |-> ended(cus[k])], 1)

(* line 207 *)
SetTaskContainedLines ==
    /\ plan # <<>> /\ Head(plan) = "lines"
    /\ result' = set_task_contained_lines(result)
    /\ plan' = Tail(plan)
    /\ UNCHANGED <<pet, loop_data, reduction_vars, pipeline, reduction, doAll, geomDecomp,
                   mwType, loop_iterations, todo, mw, viz, bar>>

(* __task_contained_in_reduction_loop: pet.reduction_vars is a list here, in
   the order of the file; a name is a list of its parts, so that replace()
   can drop a trailing ".addr". The lines behind the colon are compared as
   texts *)
task_contained_in_reduction_loop(task) ==
    LET parents == get_parent_of_type(task.node, "loop", FALSE)
        contained_in ==
            SelectSeq([i \in 1..Len(parents) |-> parents[i][1]],
                      LAMBDA parent_loop :
                          /\ ~StrGreater(first_line(parent_loop), first_line(task.node))
                          /\ ~StrGreater(last_line(task.node), last_line(parent_loop)))
        entries(parent) == SelectSeq(reduction_vars, LAMBDA rv : rv.loop_line = pet.startsAtLine[parent])
        found == SelectSeq(contained_in, LAMBDA parent : reduction[parent] /\ entries(parent) # <<>>)
    IN IF found = <<>> THEN <<>> ELSE <<entries(found[1])[1]>>

reduction_clause(red_vars_entry) ==
    <<"reduction(", red_vars_entry.operation, ":">>
       \o SelectSeq(red_vars_entry.name, LAMBDA part : part # ".addr") \o <<")">>

detect_taskloop_reduction(suggestions) ==
    [i \in 1..Len(suggestions) |->
        LET s == suggestions[i]
        IN IF s.type # "TaskParallelismInfo" THEN s
           ELSE LET red_vars_entry == task_contained_in_reduction_loop(s)
                IN IF red_vars_entry = <<>> THEN s
                   ELSE [s EXCEPT !.pragma = <<"taskloop", reduction_clause(red_vars_entry[1])>>]]

(* line 208 *)
DetectTaskloopReduction ==
    /\ plan # <<>> /\ Head(plan) = "taskloop"
    /\ result' = detect_taskloop_reduction(result)
    /\ plan' = Tail(plan)
    /\ UNCHANGED <<pet, loop_data, reduction_vars, pipeline, reduction, doAll, geomDecomp,
                   mwType, loop_iterations, todo, mw, viz, bar>>

(* a function or loop 1 on lines 8..12 with loops and CUs nested in it: a
   child lies inside its parent, siblings do not overlap *)
LineRanges == {<<8, 12>>, <<9, 11>>, <<9, 10>>, <<10, 10>>, <<9, 9>>, <<11, 12>>}
LinePets ==
    UNION {UNION {UNION {
        {MkPet(n, ty, par, <<>>, [k \in 1..n |-> rg[k][1]], [k \in 1..n |-> rg[k][2]],
               [k \in 1..n |-> {}], [k \in 1..n |-> {}]) :
            rg \in {r \in [1..n -> LineRanges] :
                      /\ r[1] = <<8, 12>>
                      /\ \A k \in 2..n : r[par[k]][1] <= r[k][1] /\ r[k][2] <= r[par[k]][2]
                                         /\ r[k] # r[par[k]]
                      /\ \A j, k \in 2..n : j < k /\ par[j] = par[k] => r[j][2] < r[k][1]}}
        : par \in TreeParents(n)}
        : ty \in {f \in [1..n -> {"func", "loop", "cu"}] :
                     f[1] # "cu" /\ f[n] = "cu" /\ \A k \in 2..n : f[k] # "func"}}
        : n \in 2..3}

(* the suggestions of the earlier passes: tasks and taskwaits on lines of
   their CU, and a parallel region around function 1 *)
LineSuggestions(g) ==
    {PostInfo(v, pragma, line) :
        v \in {k \in 1..g.n : g.type[k] = "cu"}, pragma \in {"task", "taskwait"}, line \in 8..12}
    \cup {ParallelRegionInfo(1, g.startsAtLine[k], g.endsAtLine[k]) : k \in {j \in 2..g.n : g.type[1] = "func"}}
ReductionEntries(g) ==
    {[loop_line |-> g.startsAtLine[k], name |-> nm, operation |-> "+"] :
        k \in {j \in 1..g.n : g.type[j] = "loop"}, nm \in {<<"s">>, <<"s", ".addr">>}}

InitLines ==
    \E g \in LinePets :
      \E chosen \in UpTo(LineSuggestions(g), MaxLineSuggestions) :
        \E order \in Orders(chosen) :
          \E red \in {f \in [1..g.n -> BOOLEAN] : \A v \in 1..g.n : f[v] => g.type[v] = "loop"} :
            \E rv \in UpTo(ReductionEntries(g), 1) :
              /\ \A i \in 1..Len(order) :
                    order[i].type = "TaskParallelismInfo" =>
                        /\ g.startsAtLine[order[i].node] <= LineNumber(order[i].pragma_line)
                        /\ LineNumber(order[i].pragma_line) <= g.endsAtLine[order[i].node]
              /\ pet = g
              /\ loop_data = <<>>
              /\ reduction_vars = rv
              /\ pipeline = [v \in 1..g.n |-> Pos(FZero)]
              /\ reduction = red
              /\ doAll = [v \in 1..g.n |-> FALSE]
              /\ geomDecomp = [v \in 1..g.n |-> FALSE]
              /\ mwType = [v \in 1..g.n |-> "FORK"]
              /\ loop_iterations = [v \in 1..g.n |-> -1]
              /\ result = order
              /\ mw = MwIdle
              /\ viz = VizFresh(g.n)
              /\ bar = BarIdle
              /\ plan = <<"lines", "taskloop">>
              /\ todo = <<>>

NextLines ==
    \/ SetTaskContainedLines
    \/ DetectTaskloopReduction

SpecLines == InitLines /\ [][NextLines]_vars

(* ------------------------------------------------------------------ *)
(* task_parallelism_detector: Task, __create_task_tree and             *)
(* __merge_tasks. The Task objects are kept in mw.tasks and named by   *)
(* their position; todo is the call stack of the helper                *)
(* ------------------------------------------------------------------ *)
workloadThreshold == 10000
minParallelism == 3
MaxStarKids == 4

(* Task.__init__: calculate_workload and total_instructions_count are given
   as tables with the graph *)
Task(node) ==
    [node_id |-> node, nodes |-> <<node>>,
     start_line |-> pet.startsAtLine[node], end_line |-> pet.endsAtLine[node],
     mw_type |-> mwType[node],
     instruction_count |-> mw.instruction_count[node],
     workload |-> mw.workload[node],
     child_tasks |-> <<>>]

(* Task.aggregate *)
aggregate(self, other) ==
    [self EXCEPT !.nodes = @ \o other.nodes,
                 !.end_line = other.end_line,
                 !.workload = @ + other.workload,
                 !.instruction_count = @ + other.instruction_count,
                 !.mw_type = IF other.mw_type = "BARRIER_WORKER" THEN "BARRIER_WORKER" ELSE "WORKER"]

(* __neighbours: the lines behind the colon, as numbers *)
neighbours(first, second) ==
    LET fel == first.end_line
        ssl == second.start_line
    IN fel = ssl \/ fel + 1 = ssl \/ fel + 2 = ssl

(* startsAtLine[child].endswith('16383'): the text ends with the line number,
   so every line number that ends in these five digits passes the test *)
ends_with_16383(child) == pet.startsAtLine[child] % 100000 = 16383

Frame(current, root) == [current |-> current, root |-> root, kids |-> <<>>, entered |-> FALSE]

(* __create_task_tree *)
CreateTaskTree ==
    /\ plan # <<>> /\ Head(plan) = "tree" /\ mw.ph = "idle"
    /\ mw' = [mw EXCEPT !.ph = "tree", !.tasks = <<Task(1)>>, !.forks = {1}]
    /\ todo' = <<Frame(1, 1)>>
    /\ UNCHANGED <<pet, loop_data, reduction_vars, pipeline, reduction, doAll, geomDecomp,
                   mwType, loop_iterations, result, plan, viz, bar>>

(* lines 836-842: the guard on the functions, and the children to walk *)
TreeEnter ==
    /\ plan # <<>> /\ Head(plan) = "tree" /\ mw.ph = "tree"
    /\ todo # <<>> /\ ~Head(todo).entered
    /\ LET f == Head(todo)
       IN IF pet.type[f.current] = "func" /\ f.current \in Range(mw.visited_func)
            THEN /\ todo' = Tail(todo)
                 /\ mw' = mw
            ELSE /\ todo' = <<[f EXCEPT !.entered = TRUE, !.kids = find_subnodes(f.current, "child")]>>
                             \o Tail(todo)
                 /\ mw' = IF pet.type[f.current] = "func"
                            THEN [mw EXCEPT !.visited_func = Append(@, f.current)] ELSE mw
    /\ UNCHANGED <<pet, loop_data, reduction_vars, pipeline, reduction, doAll, geomDecomp,
                   mwType, loop_iterations, result, plan, viz, bar>>

(* lines 842-855: one child of the loop *)
TreeChild ==
    /\ plan # <<>> /\ Head(plan) = "tree" /\ mw.ph = "tree"
    /\ todo # <<>> /\ Head(todo).entered /\ Head(todo).kids # <<>>
    /\ LET f == Head(todo)
           child == Head(f.kids)
           mw_type == mwType[child]
           task == Len(mw.tasks) + 1
           rest == <<[f EXCEPT !.kids = Tail(@)]>> \o Tail(todo)
       IN IF mw_type \in {"BARRIER", "BARRIER_WORKER", "WORKER"}
            THEN /\ mw' = [mw EXCEPT !.tasks = Append([@ EXCEPT ![f.root].child_tasks = Append(@, task)],
                                                      Task(child))]
                 /\ todo' = <<Frame(child, task)>> \o rest
            ELSE IF mw_type = "FORK" /\ ~ends_with_16383(child)
            THEN /\ mw' = [mw EXCEPT !.tasks = Append(@, Task(child)), !.forks = @ \cup {task}]
                 /\ todo' = <<Frame(child, task)>> \o rest
            ELSE /\ mw' = mw
                 /\ todo' = <<Frame(child, f.root)>> \o rest
    /\ UNCHANGED <<pet, loop_data, reduction_vars, pipeline, reduction, doAll, geomDecomp,
                   mwType, loop_iterations, result, plan, viz, bar>>

(* the return of the helper, and of __create_task_tree with the last one *)
TreeReturn ==
    /\ plan # <<>> /\ Head(plan) = "tree" /\ mw.ph = "tree"
    /\ todo # <<>> /\ Head(todo).entered /\ Head(todo).kids = <<>>
    /\ todo' = Tail(todo)
    /\ IF Tail(todo) = <<>>
         THEN mw' = [mw EXCEPT !.ph = "built"] /\ plan' = Tail(plan)
         ELSE mw' = mw /\ plan' = plan
    /\ UNCHANGED <<pet, loop_data, reduction_vars, pipeline, reduction, doAll, geomDecomp,
                   mwType, loop_iterations, result, viz, bar>>

(* list.remove: the first occurrence *)
list_remove(list, x) ==
    LET at == CHOOSE i \in 1..Len(list) : list[i] = x /\ \A j \in 1..(i - 1) : list[j] # x
    IN RemoveAt(list, at)

(* __merge_tasks on the root task: every call either returns at once or
   changes the tree, calls itself and returns *)
merge_children == mw.tasks[1].child_tasks
under_threshold == {i \in 1..Len(merge_children) : mw.tasks[merge_children[i]].workload < workloadThreshold}
first_under == CHOOSE i \in under_threshold : \A j \in under_threshold : i <= j
InMerge == plan # <<>> /\ Head(plan) = "merge" /\ mw.ph \in {"built", "merge"}

(* lines 69-75: pred.aggregate(child_task), and pred.child_tasks.remove(child_task),
   which raises ValueError when child_task is not a child of pred *)
MergePred ==
    /\ InMerge /\ under_threshold # {} /\ first_under > 1
    /\ LET pred == merge_children[first_under - 1]
           child_task == merge_children[first_under]
           aggregated == [mw.tasks EXCEPT ![pred] = aggregate(mw.tasks[pred], mw.tasks[child_task])]
       IN /\ neighbours(mw.tasks[pred], mw.tasks[child_task])
          /\ IF child_task \in Range(aggregated[pred].child_tasks)
               THEN /\ mw' = [mw EXCEPT !.ph = "merge",
                                        !.tasks = [aggregated EXCEPT ![pred].child_tasks = list_remove(@, child_task)]]
                    /\ plan' = plan
               ELSE /\ mw' = [mw EXCEPT !.ph = "ValueError", !.tasks = aggregated]
                    /\ plan' = <<>>
    /\ UNCHANGED <<pet, loop_data, reduction_vars, pipeline, reduction, doAll, geomDecomp,
                   mwType, loop_iterations, result, todo, viz, bar>>

pred_merges ==
    /\ first_under > 1
    /\ neighbours(mw.tasks[merge_children[first_under - 1]], mw.tasks[merge_children[first_under]])
succ_merges ==
    /\ first_under + 1 <= Len(merge_children) - 1
    /\ neighbours(mw.tasks[merge_children[first_under]], mw.tasks[merge_children[first_under + 1]])

(* lines 76-82 *)
MergeSucc ==
    /\ InMerge /\ under_threshold # {} /\ ~pred_merges /\ succ_merges
    /\ LET child_task == merge_children[first_under]
           succ == merge_children[first_under + 1]
       IN mw' = [mw EXCEPT !.ph = "merge",
                           !.tasks = [@ EXCEPT ![child_task] = aggregate(mw.tasks[child_task], mw.tasks[succ]),
                                               ![1].child_tasks = list_remove(@, succ)]]
    /\ UNCHANGED <<pet, loop_data, reduction_vars, pipeline, reduction, doAll, geomDecomp,
                   mwType, loop_iterations, result, plan, todo, viz, bar>>

(* lines 83-85 *)
MergeDrop ==
    /\ InMerge /\ under_threshold # {} /\ ~pred_merges /\ ~succ_merges
    /\ mw' = [mw EXCEPT !.ph = "merge",
                        !.tasks[1].child_tasks = list_remove(@, merge_children[first_under])]
    /\ UNCHANGED <<pet, loop_data, reduction_vars, pipeline, reduction, doAll, geomDecomp,
                   mwType, loop_iterations, result, plan, todo, viz, bar>>

(* lines 87-92: max() takes the first of the heaviest children *)
MergeFlatten ==
    /\ InMerge /\ under_threshold = {}
    /\ merge_children # <<>> /\ Len(merge_children) < minParallelism
    /\ LET heaviest == CHOOSE i \in 1..Len(merge_children) :
                          /\ \A j \in 1..Len(merge_children) :
                                mw.tasks[merge_children[j]].workload <= mw.tasks[merge_children[i]].workload
                          /\ \A j \in 1..(i - 1) :
                                mw.tasks[merge_children[j]].workload < mw.tasks[merge_children[i]].workload
           max_workload_task == merge_children[heaviest]
       IN mw' = [mw EXCEPT !.ph = "merge",
                           !.tasks[1].child_tasks =
                               list_remove(@ \o mw.tasks[max_workload_task].child_tasks, max_workload_task)]
    /\ UNCHANGED <<pet, loop_data, reduction_vars, pipeline, reduction, doAll, geomDecomp,
                   mwType, loop_iterations, result, plan, todo, viz, bar>>

(* lines 94-96: nothing left to do *)
MergeReturn ==
    /\ InMerge /\ under_threshold = {}
    /\ ~(merge_children # <<>> /\ Len(merge_children) < minParallelism)
    /\ mw' = [mw EXCEPT !.ph = "merged"]
    /\ plan' = Tail(plan)
    /\ UNCHANGED <<pet, loop_data, reduction_vars, pipeline, reduction, doAll, geomDecomp,
                   mwType, loop_iterations, result, todo, viz, bar>>

(* the graphs of the task tree: a function 1 with functions and CUs below it
   and at most one further call edge, whose FORK nodes start on their own
   line, on the sentinel line or on a line that ends in its digits; and a
   function with MaxStarKids or one fewer CUs below it, one line each, the
   next one or three lines further on *)
TreeRoles == {"WORKER", "BARRIER", "BARRIER_WORKER", "FORK", "ROOT"}
TreeWorkloads == {5000, 20000}
NestedPets ==
    UNION {{[g EXCEPT !.startsAtLine = sl,
                      !.endsAtLine = [v \in 1..g.n |-> IF sl[v] = v THEN g.endsAtLine[v] ELSE sl[v]]] :
               sl \in {f \in [1..g.n -> {1, 2, 3, 16383, 116383}] :
                          f[1] = 1 /\ \A v \in 1..g.n : f[v] < 16383 => f[v] = v}}
           : g \in PostPetsOf(2) \cup PostPetsOf(3)}
StarPets ==
    UNION {{MkPet(k + 1, [v \in 1..(k + 1) |-> IF v = 1 THEN "func" ELSE "cu"],
                  [v \in 1..(k + 1) |-> IF v = 1 THEN 0 ELSE 1], <<>>,
                  [v \in 1..(k + 1) |-> IF v = 1 THEN 1 ELSE at[v - 1]],
                  [v \in 1..(k + 1) |-> IF v = 1 THEN at[k] + 1 ELSE at[v - 1]],
                  [v \in 1..(k + 1) |-> {}], [v \in 1..(k + 1) |-> {}]) :
               at \in {f \in [1..k -> 2..(3 * k)] :
                          f[1] = 2 /\ \A i \in 2..k : f[i] - f[i - 1] \in {1, 3}}}
           : k \in (MaxStarKids - 1)..MaxStarKids}

InitTree ==
    \E g \in NestedPets \cup StarPets :
      \E role \in [1..g.n -> TreeRoles] :
        \E w \in [1..g.n -> TreeWorkloads] :
          /\ role[1] = "ROOT" /\ w[1] = 20000
          /\ \A v \in 2..g.n : g.startsAtLine[v] >= 16383 => role[v] = "FORK"
          /\ g.n > 3 => \A v \in 2..g.n : role[v] \in {"WORKER", "BARRIER_WORKER"}
          /\ pet = g
          /\ loop_data = <<>>
          /\ reduction_vars = {}
          /\ pipeline = [v \in 1..g.n |-> Pos(FZero)]
          /\ reduction = [v \in 1..g.n |-> FALSE]
          /\ doAll = [v \in 1..g.n |-> FALSE]
          /\ geomDecomp = [v \in 1..g.n |-> FALSE]
          /\ mwType = role
          /\ loop_iterations = [v \in 1..g.n |-> -1]
          /\ result = <<>>
          /\ mw = [ph |-> "idle", workload |-> w, instruction_count |-> [v \in 1..g.n |-> 100 + v],
                   tasks |-> <<>>, forks |-> {}, visited_func |-> <<>>]
          /\ viz = VizFresh(g.n)
          /\ bar = BarIdle
          /\ plan = <<"tree", "merge">>
          /\ todo = <<>>

NextTree ==
    \/ CreateTaskTree
    \/ TreeEnter
    \/ TreeChild
    \/ TreeReturn
    \/ MergePred
    \/ MergeSucc
    \/ MergeDrop
    \/ MergeFlatten
    \/ MergeReturn

(* the recursion runs on: a step that can be taken is taken *)
SpecTree == InitTree /\ [][NextTree]_vars /\ WF_vars(NextTree)

(* ------------------------------------------------------------------ *)
(* Properties                                                          *)
(* ------------------------------------------------------------------ *)
Phase == IF plan = <<>> THEN "done" ELSE Head(plan)
PhaseRank(p) ==
    CASE p = "merge" -> 0 [] p = "pipeline" -> 1 [] p = "reduction" -> 2 [] p = "do_all" -> 3
      [] p = "task" -> 4 [] p = "geom" -> 5 [] OTHER -> 6

(* C1: in one run of detect_patterns the passes come in the order reduction,
   do-all, task parallelism, geometric decomposition: the run never goes back
   to an earlier pass, the reduction flags are not written once do-all
   detection has begun, and neither the reduction nor the do_all flags are
   written once task parallelism has begun, so what task parallelism and
   geometric decomposition read is final. *)
C1_PassOrder ==
    [][/\ PhaseRank(Phase') >= PhaseRank(Phase)
       /\ (PhaseRank(Phase) >= 3 => reduction' = reduction)
       /\ (PhaseRank(Phase) >= 4 => doAll' = doAll)]_vars

(* C1 witness: the run is over, and geometric decomposition accepted a
   function after reading a loop below it that both earlier passes flagged *)
C1_Witness ==
    /\ plan = <<>>
    /\ \E f \in Nodes :
          /\ geomDecomp[f]
          /\ \E l \in Range(get_subtree_of_type(f, "loop")) : doAll[l] /\ reduction[l]

(* the pairs i <= j of direct children of a loop, and those of them in which
   the first does not depend on the second *)
ChildPairs(l) ==
    {p \in (1..Len(pet.children[l])) \X (1..Len(pet.children[l])) : p[1] <= p[2]}
IndependentPairs(l) ==
    {p \in ChildPairs(l) : ~is_depending(pet.children[l][p[1]], pet.children[l][p[2]], l)}

(* C2: after do-all detection a loop is flagged exactly if 100 k > 81 n, with
   n its number of child pairs i <= j and k the number of independent ones;
   its score is exactly 1 when there are pairs and none depends, and exactly
   0 when every pair depends or there is no child. *)
C2_DoAllScore ==
    plan = <<>> =>
        \A l \in Range(find_vertex("loop")) :
            LET n == Cardinality(ChildPairs(l))
                k == Cardinality(IndependentPairs(l))
            IN /\ doAll[l] <=> (100 * k > 81 * n)
               /\ (n > 0 /\ k = n) => detect_do_all(l) = FOne
               /\ (k = 0) => detect_do_all(l) = FZero

(* C2, without the clause on the score being exactly 1 *)
C2_FlagAndZero ==
    plan = <<>> =>
        \A l \in Range(find_vertex("loop")) :
            LET n == Cardinality(ChildPairs(l))
                k == Cardinality(IndependentPairs(l))
            IN /\ doAll[l] <=> (100 * k > 81 * n)
               /\ (k = 0) => detect_do_all(l) = FZero

(* the nodes reachable from v along child edges, v included *)
RECURSIVE ChildClosure(_, _)
ChildClosure(S, k) ==
    IF k = 0 THEN S
    ELSE ChildClosure(S \cup {c \in Nodes : \E p \in S : c \in Range(pet.children[p])}, k - 1)
Below(v) == ChildClosure({v}, pet.n)

(* some CU below v carries a variable that the reduction table lists for
   the start line of v *)
HasReductionFact(v) ==
    \E c \in Below(v) :
        /\ pet.type[c] = "cu"
        /\ \E name \in pet.localVars[c] \cup pet.globalVars[c] :
               [loop_line |-> pet.startsAtLine[v], name |-> name] \in reduction_vars

(* C3: after reduction detection a LOOP has reduction = TRUE exactly if a
   local or global variable of some CU in its child subtree is listed in the
   reduction table under the loop's start line; a node that is not a LOOP
   never has reduction = TRUE. *)
C3_Reduction ==
    /\ \A v \in Nodes : pet.type[v] # "loop" => ~reduction[v]
    /\ plan = <<>> =>
           \A v \in Nodes : pet.type[v] = "loop" => (reduction[v] <=> HasReductionFact(v))

(* a finished pass with a reduction loop whose listed variable sits in a CU
   two levels down, and a second loop that stays unflagged although a CU below
   it carries a variable that the table lists under another line *)
C3_Witness ==
    /\ plan = <<>>
    /\ \E l \in Nodes, c \in Nodes :
           /\ reduction[l] /\ pet.type[c] = "cu"
           /\ c \in Below(l) /\ c \notin Range(pet.children[l])
    /\ \E l \in Nodes, c \in Nodes :
           /\ pet.type[l] = "loop" /\ ~reduction[l]
           /\ c \in Below(l) /\ pet.type[c] = "cu"
           /\ \E rv \in reduction_vars : rv.name \in pet.localVars[c] \cup pet.globalVars[c]

(* every LOOP below v (v included), and every LOOP directly under a FUNC
   directly under v, is do_all or reduction *)
AllLoopsFlagged(v) ==
    /\ \A l \in Below(v) : pet.type[l] = "loop" => (doAll[l] \/ reduction[l])
    /\ \A f \in Range(pet.children[v]) : pet.type[f] = "func" =>
           \A l \in Range(pet.children[f]) : pet.type[l] = "loop" => (doAll[l] \/ reduction[l])

(* C4: geometric decomposition detection sets the flag of a LOOP exactly if
   every LOOP in its child subtree, and every LOOP directly under a FUNC
   directly under it, is already do_all or reduction. *)
C4_AcceptsIffAllFlagged ==
    plan = <<>> =>
        \A v \in Nodes : pet.type[v] = "loop" => (geomDecomp[v] <=> AllLoopsFlagged(v))

(* the inner loops of v: its direct LOOP children and the LOOP children of
   its direct FUNC children *)
InnerLoops(v) ==
    {c \in Nodes : /\ pet.type[c] = "loop"
                   /\ \/ c \in Range(pet.children[v])
                      \/ \E f \in Range(pet.children[v]) :
                             pet.type[f] = "func" /\ c \in Range(pet.children[f])}

(* the measured iterations of the nearest loop above c, at least 1 *)
RECURSIVE OuterIters(_)
OuterIters(c) ==
    LET ps == {p \in Nodes : c \in Range(pet.children[p])}
    IN IF ps = {} THEN 1
       ELSE LET p == CHOOSE q \in ps : TRUE
            IN IF pet.type[p] = "loop"
               THEN Max2(1, IF pet.startsAtLine[p] \in DOMAIN loop_data THEN loop_data[pet.startsAtLine[p]] ELSE 0)
               ELSE OuterIters(p)

(* the iteration count of loop c: its measured iterations per iteration of
   the loop around it *)
IterCount(c) ==
    LET own == IF pet.startsAtLine[c] \in DOMAIN loop_data THEN loop_data[pet.startsAtLine[c]] ELSE 0
    IN IF own < OuterIters(c) THEN own ELSE own \div OuterIters(c)

(* C5: a suggestion is reported for a node only if the node has an inner loop
   and no inner loop has iteration count 0, and the min_iter it reports is
   the minimum of the inner loops' iteration counts. *)
C5_ChunkLimit ==
    \A i \in 1..Len(result) :
        LET counts == {IterCount(c) : c \in InnerLoops(result[i].node)}
        IN /\ counts # {}
           /\ \A x \in counts : x > 0 /\ result[i].min_iter <= x
           /\ result[i].min_iter \in counts

(* a finished run that reported one node and rejected another accepted node
   because one of its inner loops, next to one with a positive count, has
   count 0 *)
C5_Witness ==
    /\ plan = <<>>
    /\ \E i \in 1..Len(result) : InnerLoops(result[i].node) # {}
    /\ \E v \in Nodes :
           /\ geomDecomp[v]
           /\ \A i \in 1..Len(result) : result[i].node # v
           /\ \E c \in InnerLoops(v) : IterCount(c) = 0
           /\ \E c \in InnerLoops(v) : IterCount(c) > 0

(* children of one parent, and a dependence edge between two nodes in either
   direction *)
Siblings(a, b) == a # b /\ \E p \in Nodes : a \in Range(pet.children[p]) /\ b \in Range(pet.children[p])
DirectEdge(a, b) ==
    \E k \in 1..Len(pet.deps) : \/ pet.deps[k].src = a /\ pet.deps[k].dst = b
                                \/ pet.deps[k].src = b /\ pet.deps[k].dst = a
(* the pairing only turns BARRIER into BARRIER_WORKER: a child whose role is
   one of the two at the end of the run had reached BARRIER *)
ReachedBarrier(v) == mwType[v] \in {"BARRIER", "BARRIER_WORKER"}

(* C6: at the end of the classification a child that reached BARRIER is
   BARRIER_WORKER exactly if another child of the same parent reached BARRIER
   and has no direct edge to or from it. *)
C6_BarrierWorkerPairs ==
    plan = <<>> =>
        \A c \in Nodes : ReachedBarrier(c) =>
            (mwType[c] = "BARRIER_WORKER"
                <=> \E d \in Nodes : Siblings(c, d) /\ ReachedBarrier(d) /\ ~DirectEdge(c, d))

(* C7: when the three CU children of the function have no dependence between
   them, each of them has role WORKER after the classification. *)
C7_IndependentWorkers ==
    (plan = <<>> /\ pet.deps = <<>>) => \A c \in 2..4 : mwType[c] = "WORKER"

(* C8: a BARRIER_WORKER role never changes again, and no node goes from
   BARRIER or BARRIER_WORKER back to WORKER, FORK, ROOT or NONE. *)
C8_OneWay ==
    [][\A v \in Nodes :
          /\ mwType[v] = "BARRIER_WORKER" => mwType'[v] = "BARRIER_WORKER"
          /\ mwType[v] \in {"BARRIER", "BARRIER_WORKER"} =>
                 mwType'[v] \notin {"WORKER", "FORK", "ROOT", "NONE"}]_vars

(* C9: the taskwait fixpoint pass is idempotent: a second call on the result
   of the first adds no suggestion and changes no omittable, contains-task
   or contains-taskwait flag. *)
C9_Idempotent ==
    [][Len(plan) = 1 => (result' = result /\ viz' = viz)]_vars

(* both calls are over, and in the first one a node that carries a task
   suggestion was made omittable in one sweep (one task target, no barrier
   target) and was given a taskwait in a later one, after one of its targets
   had become a barrier *)
C9_Witness ==
    /\ plan = <<>>
    /\ \E v \in Nodes :
           /\ viz.omittable[v] = "True"
           /\ \E i \in 1..Len(result) : result[i].node = v /\ result[i].pragma = <<"task">>
           /\ \E k \in 1..Len(result) : result[k].node = v /\ result[k].pragma = <<"taskwait">>

(* C10: after pipeline detection every LOOP with fewer than two qualifying
   stages (direct children that survive the stage filter) has the stored
   pipeline score exactly 0. *)
C10_FewStagesScoreZero ==
    plan = <<>> =>
        \A l \in Nodes :
            (pet.type[l] = "loop" /\ Len(pipeline_subnodes(l)) < 2) => pipeline[l] = Pos(FZero)

(* a finished pass over a loop with three children, two of them dependent,
   of which the filter lets only one through; the stored score is 0 *)
C10_Witness ==
    /\ plan = <<>>
    /\ \E l \in Nodes :
           /\ pet.type[l] = "loop"
           /\ Len(pet.children[l]) = 3 /\ Len(pipeline_subnodes(l)) = 1
           /\ \E a \in Range(pet.children[l]), b \in Range(pet.children[l]) : depends(a, b)
           /\ pipeline[l] = Pos(FZero)

(* a depth-first walk along child edges that enters every node once: the
   nodes in the order in which they are entered *)
RECURSIVE DfsOnce(_, _, _)
DfsOnce(stack, seen, out) ==
    IF stack = <<>> THEN out
    ELSE IF Head(stack) \in seen THEN DfsOnce(Tail(stack), seen, out)
    ELSE DfsOnce(pet.children[Head(stack)] \o Tail(stack), seen \cup {Head(stack)}, Append(out, Head(stack)))

(* a list without the repetitions of its elements *)
RECURSIVE FirstOccurrences(_)
FirstOccurrences(s) ==
    IF s = <<>> THEN <<>>
    ELSE LET front == FirstOccurrences(SubSeq(s, 1, Len(s) - 1))
         IN IF s[Len(s)] \in Range(front) THEN front ELSE Append(front, s[Len(s)])

SubtreeAnswers ==
    {i \in 1..Len(result) : /\ result[i].fn \in {"subtree_of_type", "get_subtree_of_type"}
                            /\ result[i].err = "" /\ result[i].type # "*"}

(* C11: subtree_of_kind(root, k) returns exactly the nodes of kind k that are
   reachable from root over child edges, in pre-order, root first when it is
   of kind k. *)
C11_SubtreePreOrder ==
    \A i \in SubtreeAnswers :
        LET r == result[i]
        IN /\ Range(r.out) = {v \in Below(r.root) : pet.type[v] = r.type}
           /\ pet.type[r.root] = r.type => r.out[1] = r.root
           /\ FirstOccurrences(r.out)
                  = SelectSeq(DfsOnce(<<r.root>>, {}, <<>>), LAMBDA v : pet.type[v] = r.type)

(* an answer of PETGraphX.subtree_of_type with three nodes of the kind, one
   of them two levels below a root of that kind, in a graph that also has a
   dependence edge *)
C11_Witness ==
    \E i \in SubtreeAnswers :
        /\ result[i].fn = "subtree_of_type"
        /\ Len(result[i].out) = 3 /\ result[i].out[1] = result[i].root
        /\ \E v \in Range(result[i].out) :
               v # result[i].root /\ v \notin Range(pet.children[result[i].root])
        /\ pet.deps # <<>>

(* C12: the result of subtree_of_kind contains no node more than once, also
   when a node is reachable from the root along two child paths. *)
C12_NoRepetition ==
    \A i \in SubtreeAnswers :
        \A a \in 1..Len(result[i].out), b \in 1..Len(result[i].out) :
            a # b => result[i].out[a] # result[i].out[b]

(* C16: in a graph with a child reference to a node without a record, the
   queries all_nodes, and subtree_of_kind and direct_children_of_kind from
   the referencing node, complete without an error. *)
C16_DanglingTolerated ==
    \A i \in 1..Len(result) :
        (/\ \E v \in Nodes : ~has_data(v)
         /\ result[i].fn \in {"all_nodes", "subtree_of_type", "direct_children_of_type"}
         /\ \/ result[i].fn = "all_nodes"
            \/ \E t \in Range(pet.children[result[i].root]) : ~has_data(t))
        => result[i].err = ""

(* ------------------------------------------------------------------ *)
(* C13: the task count of a geometric decomposition is the largest
   multiple of 100 not above nt when nt >= 1000, the largest multiple of
   10 not above nt when 100 <= nt < 1000, the integer part of nt when
   0 <= nt < 100, and 2 when nt < 0 *)
(* step * q <= nt < step * (q + 1), compared exactly *)
LargestMultiple(r, step, nt) ==
    /\ r % step = 0
    /\ ~FLess(nt, FFromNat(r))
    /\ FLess(nt, FFromNat(r + step))
C13_TaskCount ==
    \A i \in 1..Len(result) :
        LET nt == result[i].nt
            r == result[i].num_tasks
        IN IF nt.neg THEN r = 2
           ELSE IF ~FLess(nt.a, FFromNat(1000)) THEN LargestMultiple(r, 100, nt.a)
           ELSE IF ~FLess(nt.a, FFromNat(100)) THEN LargestMultiple(r, 10, nt.a)
           ELSE LargestMultiple(r, 1, nt.a)
C13_Witness ==
    /\ Len(result) = 1
    /\ ~result[1].nt.neg
    /\ result[1].num_tasks >= 1000
    /\ FLess(FFromNat(result[1].num_tasks), result[1].nt.a)

(* ------------------------------------------------------------------ *)
(* C14: reduction detection depends neither on the do_all flags nor on the
   order in which the loops are visited: every completed run, the first as
   well as a repeated one, leaves reduction = TRUE on exactly the loops with
   a listed variable below them, and no step resets a flag that is set *)
C14_ReductionStable ==
    [][/\ \A v \in Nodes : reduction[v] => reduction'[v]
       /\ plan' # plan =>
              \A v \in Nodes : reduction'[v] <=> (pet.type[v] = "loop" /\ HasReductionFact(v))]_vars
(* a first run is over, the second is about to start: a loop flagged both
   do-all and reduction, next to a loop that is neither *)
C14_Witness ==
    /\ plan = <<"reduction">>
    /\ \E a, b \in Nodes :
           /\ doAll[a] /\ reduction[a]
           /\ pet.type[b] = "loop" /\ ~doAll[b] /\ ~reduction[b]

(* ------------------------------------------------------------------ *)
(* C15: each analysis flag has one writer: a step of the pipeline pass
   changes only pipeline, of the reduction pass only reduction, of the
   do-all pass only doAll, of the geometric-decomposition pass only
   geomDecomp, of the role classification only mwType; the other flags, the
   nodes and the edges stay as they were *)
C15_OneWriter ==
    [][plan # <<>> =>
         /\ Head(plan) = "pipeline" => UNCHANGED <<pet, reduction, doAll, geomDecomp, mwType>>
         /\ Head(plan) = "reduction" => UNCHANGED <<pet, pipeline, doAll, geomDecomp, mwType>>
         /\ Head(plan) = "do_all" => UNCHANGED <<pet, pipeline, reduction, geomDecomp, mwType>>
         /\ Head(plan) = "geom" => UNCHANGED <<pet, pipeline, reduction, doAll, mwType>>
         /\ Head(plan) = "task" => UNCHANGED <<pet, pipeline, reduction, doAll, geomDecomp>>]_vars
(* all passes, the pipeline pass among them, are over, and the reduction, the
   do-all, the geometric-decomposition and the role flag have each been set *)
C15_Witness ==
    /\ plan = <<>>
    /\ \E v \in Nodes : reduction[v]
    /\ \E v \in Nodes : doAll[v]
    /\ \E v \in Nodes : geomDecomp[v]
    /\ \E v \in Nodes : mwType[v] # "FORK"

(* ------------------------------------------------------------------ *)
(* the loops and the CUs of the subtree of root_loop *)
LoopLines(root_loop) == {pet.startsAtLine[l] : l \in {v \in Below(root_loop) : pet.type[v] = "loop"}}
BodyCUs(root_loop) == {c \in Below(root_loop) : pet.type[c] = "cu"}
(* var is the index of a loop below root_loop: a RAW edge on var between two
   CUs of the body sits on the header line of one of the loops *)
LoopIndexVar(var, root_loop) ==
    \E k \in 1..Len(pet.deps) :
        /\ pet.deps[k].dtype = "RAW" /\ pet.deps[k].var = var
        /\ pet.deps[k].src \in BodyCUs(root_loop) /\ pet.deps[k].dst \in BodyCUs(root_loop)
        /\ pet.deps[k].source = pet.deps[k].sink
        /\ pet.deps[k].source \in LoopLines(root_loop)
(* var is only read in the body of root_loop: no write to it away from the
   loop headers *)
ReadOnlyVar(var, root_loop) ==
    ~\E k \in 1..Len(pet.deps) :
        /\ pet.deps[k].var = var
        /\ \/ /\ pet.deps[k].dtype \in {"WAR", "WAW"}
              /\ pet.deps[k].src \in BodyCUs(root_loop)
              /\ pet.deps[k].sink \notin LoopLines(root_loop)
           \/ /\ pet.deps[k].dtype = "RAW"
              /\ pet.deps[k].dst \in BodyCUs(root_loop)
              /\ pet.deps[k].source \notin LoopLines(root_loop)
ExpectedDependencies(node, root_loop) ==
    {pet.deps[k].dst : k \in {e \in 1..Len(pet.deps) :
        /\ pet.deps[e].dtype = "RAW"
        /\ pet.deps[e].src \in Below(node) /\ pet.type[pet.deps[e].src] = "cu"
        /\ ~LoopIndexVar(pet.deps[e].var, root_loop)
        /\ ~ReadOnlyVar(pet.deps[e].var, root_loop)}}
DependencyAnswers ==
    {i \in 1..Len(result) : result[i].fn \in {"PETGraphX.get_all_dependencies",
                                              "PatternDetector.get_all_dependencies"}}
(* C17: get_all_dependencies(node, root_loop) returns exactly the targets of
   the RAW edges that leave a CU of the subtree of node and whose variable is
   neither the index of a loop below root_loop nor read-only in the body of
   root_loop; an edge is left out as soon as either of the two holds *)
C17_EitherExcludes ==
    \A i \in DependencyAnswers :
        result[i].out = ExpectedDependencies(result[i].root, result[i].root_loop)

(* ------------------------------------------------------------------ *)
(* the RAW edges from the subtree of c into the subtree of s *)
RawInto(c, s) ==
    {k \in 1..Len(pet.deps) :
        pet.deps[k].dtype = "RAW" /\ pet.deps[k].src \in Below(c) /\ pet.deps[k].dst \in Below(s)}
(* the siblings of c that c depends on *)
DependsOnSiblings(c) == {s \in Nodes : Siblings(c, s) /\ RawInto(c, s) # {}}
(* C18: after the classification for their parent, a child that depends on
   two or more distinct siblings is BARRIER or BARRIER_WORKER, and a child
   that depends on exactly one sibling, through a single RAW edge, is WORKER *)
C18_ManySiblingsBarrier ==
    plan = <<>> =>
        \A c \in Range(pet.children[1]) :
            /\ Cardinality(DependsOnSiblings(c)) >= 2 => ReachedBarrier(c)
            /\ (\E s \in Nodes : DependsOnSiblings(c) = {s} /\ Cardinality(RawInto(c, s)) = 1)
                   => mwType[c] = "WORKER"

(* ------------------------------------------------------------------ *)
(* the weights 1 - (j - i) / (n - 1) of the pairs i < j of stages that lie
   two or more apart and of which the earlier depends on the later *)
NonAdjacentWeights(stages, l) ==
    {node_weights(Len(stages))[p[2] - p[1]] :
        p \in {q \in (1..Len(stages)) \X (1..Len(stages)) :
                  q[2] - q[1] >= 2 /\ is_depending(stages[q[1]], stages[q[2]], l)}}
(* C19: for a loop with two or more stages the entries appended last to the
   two vectors are decided by the dependences between non-adjacent stages
   alone: 0 and 0 when there is none, otherwise 1 and the smallest positive
   weight 1 - (j - i) / (n - 1) among them *)
C19_NonAdjacentOnly ==
    plan = <<>> =>
        \A l \in Nodes :
            (pet.type[l] = "loop" /\ Len(pipeline_subnodes(l)) >= 2) =>
                LET stages == pipeline_subnodes(l)
                    positive == {w \in NonAdjacentWeights(stages, l) : FLess(FZero, w)}
                    last == pipeline_last_entries(stages, l)
                IN /\ NonAdjacentWeights(stages, l) = {} => last = <<0, FZero>>
                   /\ positive # {} =>
                          /\ last[1] = 1
                          /\ last[2] \in positive
                          /\ \A o \in positive : ~FLess(o, last[2])

(* ------------------------------------------------------------------ *)
(* the smallest of the end line of v and the sink lines of the dependence
   edges that leave v *)
EarliestLine(v) ==
    LET lines == {pet.endsAtLine[v]} \cup {pet.deps[k].sink : k \in {e \in 1..Len(pet.deps) : pet.deps[e].src = v}}
    IN CHOOSE l \in lines : \A o \in lines : l <= o
(* C20: once the suggestions are made, every BARRIER node has exactly one
   taskwait suggestion, and its pragma line is the numerically smallest of
   the node's end line and the sink lines of its outgoing dependence edges,
   in whatever order the edges are listed *)
C20_EarliestSink ==
    plan = <<>> =>
        \A v \in Nodes : mwType[v] = "BARRIER" =>
            LET mine == SelectSeq(result, LAMBDA s : s.node = v /\ s.pragma = <<"taskwait">>)
            IN Len(mine) = 1 /\ mine[1].pragma_line = Digits(EarliestLine(v))

(* ------------------------------------------------------------------ *)
(* the nearest function above a node that has one parent *)
RECURSIVE NearestFunc(_)
NearestFunc(v) ==
    LET p == CHOOSE q \in Nodes : v \in Range(pet.children[q])
    IN IF pet.type[p] = "func" THEN p ELSE NearestFunc(p)
(* a taskwait that the filter is to keep: its node lies below the nearest
   function of some task suggestion on the same or an earlier line *)
Retained(tws, suggestions) ==
    \E ts \in Range(suggestions) :
        /\ ts.pragma = <<"task">>
        /\ LineNumber(ts.pragma_line) <= LineNumber(tws.pragma_line)
        /\ tws.node \in Below(NearestFunc(ts.node)) \ {NearestFunc(ts.node)}
Occurrences(s, x) == Cardinality({i \in 1..Len(s) : s[i] = x})
(* C21: the filter of useless taskwaits returns the task suggestions as they
   were, and a taskwait suggestion exactly once if its node lies below the
   nearest function of a task suggestion on the same or an earlier line, and
   not at all otherwise *)
C21_UselessTaskwaits ==
    [][(plan # <<>> /\ Head(plan) = "useless") =>
          /\ SelectSeq(result', LAMBDA s : s.pragma # <<"taskwait">>)
                 = SelectSeq(result, LAMBDA s : s.pragma # <<"taskwait">>)
          /\ \A i \in 1..Len(result) : result[i].pragma = <<"taskwait">> =>
                 Occurrences(result', result[i]) = IF Retained(result[i], result) THEN 1 ELSE 0]_vars

(* the nodes from which v is reached over one or more CHILD edges *)
RECURSIVE UpClosure(_)
UpClosure(S) ==
    LET more == S \cup {p \in 1..pet.n : \E v \in S : v \in Range(pet.children[p])}
    IN IF more = S THEN S ELSE UpClosure(more)
ChildAncestors(v) == UpClosure({p \in 1..pet.n : v \in Range(pet.children[p])})
RegionSuggestions == SelectSeq(result, LAMBDA s : s.type = "ParallelRegionInfo")
TaskSuggestionNodes ==
    {result[i].node : i \in {k \in 1..Len(result) :
        result[k].type = "TaskParallelismInfo" /\ result[k].pragma[1] = "task"}}

(* C22: once the parallel regions are derived, every region suggestion sits
   on a FUNC node that is a CHILD-ancestor of the node of some task
   suggestion and has no other FUNC above it, and no two region suggestions
   have the same FUNC node and the same region lines *)
C22_OuterRegionsOnce ==
    plan = <<>> =>
        /\ \A i \in 1..Len(RegionSuggestions) :
              LET r == RegionSuggestions[i]
              IN /\ pet.type[r.node] = "func"
                 /\ \E t \in TaskSuggestionNodes : r.node \in ChildAncestors(t)
                 /\ \A f \in ChildAncestors(r.node) \ {r.node} : pet.type[f] # "func"
        /\ \A i, j \in 1..Len(RegionSuggestions) :
              RegionSuggestions[i] = RegionSuggestions[j] => i = j

(* C23: the derivation of the parallel regions comes to an end on every
   finite graph, mutually recursive functions included: every run that keeps
   taking steps reaches the end of the plan *)
C23_RegionsTerminate == <>(plan = <<>>)

(* ------------------------------------------------------------------ *)
TaskKind(list) == SelectSeq(list, LAMBDA s : s.type = "TaskParallelismInfo")
OtherKind(list) == SelectSeq(list, LAMBDA s : s.type # "TaskParallelismInfo")
WithoutEnd(s) == [type |-> s.type, node |-> s.node, pragma |-> s.pragma, pragma_line |-> s.pragma_line]
(* the suggestions of one node are chained in the order of their start lines read as numbers *)
ChainedByNumber(group, cu) ==
    \E o \in Orders(group) :
        /\ \A k \in 1..(Len(o) - 1) :
              /\ LineNumber(o[k].pragma_line) <= LineNumber(o[k + 1].pragma_line)
              /\ LineNumber(o[k].region_end_line.text) = LineNumber(o[k + 1].pragma_line) - 1
        /\ Len(o) >= 1 => LineNumber(o[Len(o)].region_end_line.text) = pet.endsAtLine[cu]

(* C24: the line-range pass hands the parallel regions on unchanged, loses
   and duplicates no suggestion, and chains the task and taskwait suggestions
   of every node by numeric start line: each ends one line before the next
   starts and the last ends on the end line of the node *)
C24_LineRanges ==
    [][(plan # <<>> /\ Head(plan) = "lines") =>
          /\ OtherKind(result') = OtherKind(result)
          /\ Len(result') = Len(result)
          /\ \A i \in 1..Len(TaskKind(result)) :
                Occurrences([k \in 1..Len(TaskKind(result')) |-> WithoutEnd(TaskKind(result')[k])],
                            TaskKind(result)[i])
                  = Occurrences(TaskKind(result), TaskKind(result)[i])
          /\ \A cu \in Nodes :
                ChainedByNumber(SelectSeq(TaskKind(result'), LAMBDA s : s.node = cu), cu)]_vars

(* a task suggestion whose node lies, by line numbers, inside a reduction
   loop above it that has an entry in the table of reduction facts *)
InReductionLoop(s) ==
    \E L \in ChildAncestors(s.node) :
        /\ pet.type[L] = "loop" /\ reduction[L]
        /\ pet.startsAtLine[L] <= pet.startsAtLine[s.node]
        /\ pet.endsAtLine[s.node] <= pet.endsAtLine[L]
        /\ \E i \in 1..Len(reduction_vars) : reduction_vars[i].loop_line = pet.startsAtLine[L]
IsTaskloop(s) == s.type = "TaskParallelismInfo" /\ s.pragma # <<>> /\ s.pragma[1] = "taskloop"

(* C25: the taskloop rewrite turns a suggestion into a taskloop reduction
   exactly when it is a task suggestion inside the body of an enclosing
   reduction loop with an entry in the reduction facts; every other
   suggestion, a taskwait or a parallel region too, is returned unchanged *)
C25_TaskloopOnlyTasks ==
    [][(plan # <<>> /\ Head(plan) = "taskloop") =>
          /\ Len(result') = Len(result)
          /\ \A i \in 1..Len(result) :
                LET eligible == /\ result[i].type = "TaskParallelismInfo"
                                /\ result[i].pragma = <<"task">>
                                /\ InReductionLoop(result[i])
                IN /\ IsTaskloop(result'[i]) <=> eligible
                   /\ ~eligible => result'[i] = result[i]]_vars

(* ------------------------------------------------------------------ *)
ChildBarriers(v) == {pet.deps[e].dst : e \in {k \in out_deps(v) : viz.contains_taskwait[pet.deps[k].dst] = "True"}}
ChildTasks(v) == {pet.deps[e].dst : e \in {k \in out_deps(v) : viz.contains_task[pet.deps[k].dst] = "True"}}
(* a barrier covers a task when it starts after and ends after it *)
Covers(cb, ct) ==
    pet.startsAtLine[cb] > pet.startsAtLine[ct] /\ pet.endsAtLine[cb] > pet.endsAtLine[ct]

(* C26: when the fixpoint pass visits a node without a taskwait whose
   dependence edges lead to at least one task node and at least one taskwait
   node, the node gains a taskwait exactly when no single child barrier
   covers every child task *)
C26_TaskwaitUnlessCovered ==
    [][(/\ plan # <<>> /\ Head(plan) = "barrier" /\ bar.pc = "for" /\ todo # <<>>
        /\ task_count(Head(todo)) # 0 /\ barrier_count(Head(todo)) # 0
        /\ viz.contains_taskwait[Head(todo)] = "False") =>
          ((result' = Append(result, TaskwaitInfo(Head(todo))))
             <=> ~\E cb \in ChildBarriers(Head(todo)) :
                     \A ct \in ChildTasks(Head(todo)) : Covers(cb, ct))]_vars

(* C27: the fixpoint pass comes to an end on every graph, dependence cycles
   included: no flag ever goes back, a scan reports a change only when a
   flag went from false to true, so a call scans at most 2 * |V| + 1 times;
   no suggestion is removed and no node gains a second taskwait *)
C27_FixpointTerminates ==
    /\ <>(plan = <<>>)
    /\ [](bar.pc \in {"while", "for"} => bar.scans <= 2 * pet.n + 1)
    /\ [](\A v \in Nodes : Occurrences(result, TaskwaitInfo(v)) <= 1)
    /\ [][/\ \A v \in Nodes :
               /\ viz.omittable[v] = "True" => viz'.omittable[v] = "True"
               /\ viz.contains_taskwait[v] = "True" => viz'.contains_taskwait[v] = "True"
          /\ (bar.pc = "for" /\ ~bar.transformation_happened /\ bar'.pc # "call"
                /\ bar'.transformation_happened) =>
                \E v \in Nodes :
                   \/ viz.omittable[v] = "False" /\ viz'.omittable[v] = "True"
                   \/ viz.contains_taskwait[v] = "False" /\ viz'.contains_taskwait[v] = "True"
          /\ Len(result') >= Len(result) /\ SubSeq(result', 1, Len(result)) = result]_vars
(* the pass has ended on a graph with a dependence cycle after it added a taskwait *)
C27_Witness ==
    /\ plan = <<>>
    /\ \E i, j \in 1..Len(pet.deps) :
          pet.deps[i].src = pet.deps[j].dst /\ pet.deps[i].dst = pet.deps[j].src
    /\ \E i, j \in 1..Len(result) :
          i < j /\ result[i].type = "ParallelRegionInfo" /\ result[j].type = "TaskParallelismInfo"

(* ------------------------------------------------------------------ *)
(* the helper is about to handle the next child of its current node *)
AtTreeChild ==
    /\ plan # <<>> /\ Head(plan) = "tree" /\ mw.ph = "tree"
    /\ todo # <<>> /\ Head(todo).entered /\ Head(todo).kids # <<>>
(* the helper is about to decide whether to walk the children of its current node *)
AtTreeEnter ==
    /\ plan # <<>> /\ Head(plan) = "tree" /\ mw.ph = "tree"
    /\ todo # <<>> /\ ~Head(todo).entered

(* C28: on graphs whose CHILD cycles all pass through a function the
   construction of the task tree comes to an end; the children of a
   function are walked at most once; the root gets a Task that is a fork,
   every child met with role WORKER, BARRIER or BARRIER_WORKER gets a Task
   that becomes a child task of the enclosing Task, every FORK child whose
   start line is not 16383 gets a Task that becomes a fork of its own, and
   no other child gets a Task *)
C28_TaskTree ==
    /\ <>(mw.ph \notin {"idle", "tree"})
    /\ [](mw.ph # "idle" => mw.tasks[1].node_id = 1 /\ 1 \in mw.forks)
    /\ [](\A i, j \in 1..Len(mw.visited_func) : mw.visited_func[i] = mw.visited_func[j] => i = j)
    /\ [][/\ (AtTreeEnter /\ pet.type[Head(todo).current] = "func"
                /\ todo' # <<>> /\ Len(todo') = Len(todo) /\ Head(todo').entered) =>
                   /\ Head(todo).current \notin Range(mw.visited_func)
                   /\ mw'.visited_func = Append(mw.visited_func, Head(todo).current)
          /\ AtTreeChild =>
                LET child == Head(Head(todo).kids)
                    enclosing == Head(todo).root
                    task == Len(mw.tasks) + 1
                IN IF mwType[child] \in {"WORKER", "BARRIER", "BARRIER_WORKER"}
                     THEN /\ Len(mw'.tasks) = task /\ mw'.tasks[task].node_id = child
                          /\ mw'.tasks[enclosing].child_tasks = Append(mw.tasks[enclosing].child_tasks, task)
                          /\ mw'.forks = mw.forks
                     ELSE IF mwType[child] = "FORK" /\ pet.startsAtLine[child] # 16383
                     THEN /\ Len(mw'.tasks) = task /\ mw'.tasks[task].node_id = child
                          /\ mw'.forks = mw.forks \cup {task}
                          /\ \A t \in 1..Len(mw.tasks) : mw'.tasks[t] = mw.tasks[t]
                     ELSE mw'.tasks = mw.tasks /\ mw'.forks = mw.forks]_vars

(* C29: when a Task A aggregates a Task B, the nodes of A become its own
   followed by those of B, its workload and its instruction count become
   the sums, its end line becomes that of B, and its role becomes
   BARRIER_WORKER if A or B had that role and WORKER otherwise *)
C29_Aggregate ==
    [][(plan # <<>> /\ Head(plan) = "merge") =>
          \A a \in 1..Len(mw.tasks) :
              mw'.tasks[a].nodes # mw.tasks[a].nodes =>
                  \E b \in 1..Len(mw.tasks) :
                      LET A == mw.tasks[a]
                          B == mw.tasks[b]
                      IN /\ b # a
                         /\ mw'.tasks[a].nodes = A.nodes \o B.nodes
                         /\ mw'.tasks[a].workload = A.workload + B.workload
                         /\ mw'.tasks[a].instruction_count = A.instruction_count + B.instruction_count
                         /\ mw'.tasks[a].end_line = B.end_line
                         /\ mw'.tasks[a].mw_type =
                               IF A.mw_type = "BARRIER_WORKER" \/ B.mw_type = "BARRIER_WORKER"
                                 THEN "BARRIER_WORKER" ELSE "WORKER"]_vars

(* C30: merging the children of a task comes to an end without an error;
   when it returns every direct child has at least the threshold workload
   and there are no direct children or at least minParallelism of them;
   and when a child is merged into a neighbouring sibling the absorbed task
   is no longer a child and the survivor carries the sum of the workloads *)
C30_Merge ==
    /\ <>(plan = <<>>)
    /\ [](mw.ph # "ValueError")
    /\ [](mw.ph = "merged" =>
            /\ \A i \in 1..Len(merge_children) : mw.tasks[merge_children[i]].workload >= workloadThreshold
            /\ Len(merge_children) = 0 \/ Len(merge_children) >= minParallelism)
    /\ [][(plan # <<>> /\ Head(plan) = "merge") =>
             \A a \in 1..Len(mw.tasks) :
                 mw'.tasks[a].nodes # mw.tasks[a].nodes =>
                     \E b \in Range(merge_children) :
                         /\ mw'.tasks[a].nodes = mw.tasks[a].nodes \o mw.tasks[b].nodes
                         /\ mw'.tasks[a].workload = mw.tasks[a].workload + mw.tasks[b].workload
                         /\ b \notin Range(mw'.tasks[1].child_tasks)]_vars
====
